---- MODULE Spec2Model ----
(***************************************************************************)
(* graph-chain: the GraphBuilder (src/graph_builder.py), the               *)
(* AnalyticsEngine (src/analytics_engine.py), the ingestion path of the    *)
(* DataFetcher (src/data_fetcher.py) and the parts of the web server       *)
(* (src/web_server.py) that touch the engine's state.                      *)
(*                                                                         *)
(* Node ids are pairs <<prefix, hash>>, the model of the f"block_{hash}",  *)
(* f"tx_{hash}" and f"addr_{address}" strings.  Floating point values are  *)
(* exact rationals <<numerator, denominator>> (denominator > 0); a         *)
(* standard deviation, being a square root, is carried as its square.      *)
(***************************************************************************)
EXTENDS Integers, Sequences, FiniteSets, TLC

VARIABLES
    MAX_NODES,          \* config.MAX_NODES, read from the environment at import
    nodes,              \* GraphBuilder.graph nodes: id -> [type, height]
    edges,              \* GraphBuilder.graph edges: <<from, to>> -> [type, weight]
    addr_data,          \* the 'data' attribute of address nodes
    block_heights,      \* GraphBuilder.block_heights: height -> block id
    update_queue,       \* web_server.update_queue, see on_graph_update below
    dirty,              \* AnalyticsEngine._dirty_flags
    degree_cache,       \* AnalyticsEngine._degree_cache
    degree_attr,        \* node attributes in_degree/out_degree/degree/type_degree
    activity_attr,      \* node attributes activity_score/color_scheme
    anomaly_attr,       \* node attributes is_anomaly/anomaly_score/anomaly_type
    cluster_attr,       \* node attributes cluster_id/cluster_type/cluster_color
    lastOp,             \* the operation that produced this state
    result,             \* what the last query returned
    chain,              \* the blocks the Blockfrost API serves, by height
    last_block_height,  \* DataFetcher.last_block_height
    api_status,         \* DataFetcher.api_status
    rate_limit_status,  \* DataFetcher.rate_limit_status
    error_state,        \* DataFetcher.error_state: "None" or "set"
    consecutive_errors, \* DataFetcher.consecutive_errors
    prevFlagged,        \* the nodes flagged when the last get_anomalies call began
    ingest,             \* ingestion thread: the mutation steps still to run
    qpc,                \* query threads: position in the running query
    qlocal,             \* query threads: local variables of the running query
    lastCompleted,      \* node ids returned by the get_anomalies call that returned last
    budget              \* builder operations and queries the threads may still start

graphVars  == <<MAX_NODES, nodes, edges, addr_data, block_heights, update_queue>>
engineVars == <<dirty, degree_cache>>
attrVars   == <<degree_attr, activity_attr, anomaly_attr, cluster_attr>>
fetchVars  == <<chain, last_block_height, api_status, rate_limit_status, error_state,
                consecutive_errors>>
threadVars == <<ingest, qpc, qlocal, lastCompleted, budget>>
vars == <<MAX_NODES, nodes, edges, addr_data, block_heights, update_queue, dirty,
          degree_cache,
          degree_attr, activity_attr, anomaly_attr, cluster_attr, lastOp, result,
          chain, last_block_height, api_status, rate_limit_status, error_state,
          consecutive_errors, prevFlagged, ingest, qpc, qlocal, lastCompleted, budget>>

----------------------------------------------------------------------------
(* Bounds of the model *)

MaxBlocks == 2          \* block hashes 1..MaxBlocks in the small universe
MaxTxs == 2             \* transaction hashes 1..MaxTxs in the small universe
MaxAddrs == 2           \* addresses 1..MaxAddrs in the small universe
SmallMaxNodes == 4      \* a MAX_NODES setting the small universe can reach
MaxIngestOps == 2       \* builder operations of the ingestion thread in a threaded run
MaxQueries == 1         \* queries of each query thread in a threaded run
QuietLen == 9           \* leading blocks without transactions of the quiet chain
BusyTxs == 10           \* transactions in the first block of the busy chain
RampLen == 15           \* blocks of the ramp chain; block h holds h transactions
RampMaxNodes == 200     \* a MAX_NODES setting that admits the whole ramp chain
ClusterLen == 4         \* blocks of the cluster chain; block h holds h transactions
PairLen == 3            \* blocks of the pair chain, one transaction each
MaxObserved == 2        \* largest total an observed address carries

(* Program constants *)

DefaultMaxNodes == 30   \* MAX_NODES default
MinPopulation == 10     \* detect_anomalies: node_count < 10 is skipped

----------------------------------------------------------------------------
(* Identifiers and small helpers *)

BlockId(h) == <<"block", h>>
TxId(t) == <<"tx", t>>
AddrId(a) == <<"addr", a>>
NoId == <<"none", 0>>

Families == {"degree", "activity", "anomaly", "cluster", "flow"}

NoData == [total_received |-> 0, total_sent |-> 0, transaction_count |-> 0]

EmptyFn == [x \in {} |-> 0]

Max(a, b) == IF a >= b THEN a ELSE b
Min(a, b) == IF a <= b THEN a ELSE b

RECURSIVE GCD(_, _)
GCD(a, b) == IF b = 0 THEN a ELSE GCD(b, a % b)

Abs(x) == IF x < 0 THEN -x ELSE x

\* the rational n/d in lowest terms with a positive denominator
Rat(n, d) ==
    LET sn == IF d < 0 THEN -n ELSE n
        sd == Abs(d)
        g == GCD(Abs(sn), sd)
    IN <<sn \div g, sd \div g>>

RLess(x, y) == x[1] * y[2] < y[1] * x[2]
RLeq(x, y) == x[1] * y[2] <= y[1] * x[2]
RAdd(x, y) == Rat(x[1] * y[2] + y[1] * x[2], x[2] * y[2])
RSub(x, y) == Rat(x[1] * y[2] - y[1] * x[2], x[2] * y[2])
RMul(x, y) == Rat(x[1] * y[1], x[2] * y[2])
RDiv(x, y) == Rat(x[1] * y[2], x[2] * y[1])
RInt(n) == <<n, 1>>

\* the sum of the integers in V, each counted count[v] times
RECURSIVE WeightedSum(_, _)
WeightedSum(V, count) ==
    IF V = {} THEN 0
    ELSE LET v == CHOOSE y \in V : TRUE IN v * count[v] + WeightedSum(V \ {v}, count)

\* the sum of the values of a set of <<key, value>> pairs
SumValues(pairs) ==
    LET V == {q[2] : q \in pairs} IN
    WeightedSum(V, [v \in V |-> Cardinality({q \in pairs : q[2] = v})])

----------------------------------------------------------------------------
(* GraphBuilder.  An operation is a function on the builder state           *)
(* G = [nodes, edges, addr_data, block_heights, log]; log is the sequence  *)
(* of graph mutations and event emissions the operation performed, in      *)
(* program order.                                                          *)

PNode(id, type, height, data) ==
    [p |-> "node", a |-> id, b |-> NoId, t |-> type, n |-> height, d |-> data]
PEdge(from, to, type, weight) ==
    [p |-> "edge", a |-> from, b |-> to, t |-> type, n |-> weight, d |-> NoData]
PData(id, data) ==
    [p |-> "data", a |-> id, b |-> NoId, t |-> "", n |-> 0, d |-> data]
PEmit(etype, a, b) ==
    [p |-> "emit", a |-> a, b |-> b, t |-> etype, n |-> 0, d |-> NoData]

\* networkx DiGraph.add_node with the attributes the builder passes
GAddNode(G, id, type, height, data) ==
    [G EXCEPT !.nodes = (id :> [type |-> type, height |-> height]) @@ @,
              !.addr_data = IF type = "address" THEN (id :> data) @@ @ ELSE @,
              !.block_heights = IF type = "block" THEN (height :> id) @@ @ ELSE @,
              !.log = Append(@, PNode(id, type, height, data))]

\* networkx DiGraph.add_edge: an endpoint that is not a node yet is created
\* without any attribute
GAddEdge(G, from, to, type, weight) ==
    LET implicit == {x \in {from, to} : x \notin DOMAIN G.nodes} IN
    [G EXCEPT !.nodes = [x \in implicit |-> [type |-> "none", height |-> 0]] @@ @,
              !.edges = (<<from, to>> :> [type |-> type, weight |-> weight]) @@ @,
              !.log = Append(@, PEdge(from, to, type, weight))]

GSetData(G, id, data) ==
    [G EXCEPT !.addr_data = (id :> data) @@ @,
              !.log = Append(@, PData(id, data))]

\* GraphBuilder._emit_update
GEmit(G, etype, a, b) == [G EXCEPT !.log = Append(@, PEmit(etype, a, b))]

\* GraphBuilder.add_block, block = [block_hash, block_height]
add_block(G, block, maxn) ==
    LET node_id == BlockId(block.block_hash)
        prev_height == block.block_height - 1
    IN
    IF Cardinality(DOMAIN G.nodes) >= maxn THEN G
    ELSE IF node_id \in DOMAIN G.nodes THEN G
    ELSE
      LET G1 == GAddNode(G, node_id, "block", block.block_height, NoData)
          G2 == IF prev_height \in DOMAIN G1.block_heights
                THEN LET prev_block_id == G1.block_heights[prev_height] IN
                     IF <<prev_block_id, node_id>> \notin DOMAIN G1.edges
                     THEN GEmit(GAddEdge(G1, prev_block_id, node_id, "chain", 1),
                                "edge_added", prev_block_id, node_id)
                     ELSE G1
                ELSE G1
      IN GEmit(G2, "node_added", node_id, NoId)

AddAddressReplacing(G, address, maxn) ==
    LET addr_id == AddrId(address.address)
        new == [total_received |-> address.total_received,
                total_sent |-> address.total_sent,
                transaction_count |-> address.transaction_count]
    IN
    IF addr_id \notin DOMAIN G.nodes
    THEN IF Cardinality(DOMAIN G.nodes) >= maxn THEN G
         ELSE GEmit(GAddNode(G, addr_id, "address", 0, new), "node_added", addr_id, NoId)
    ELSE GEmit(GSetData(G, addr_id, new), "node_updated", addr_id, NoId)

\* GraphBuilder.add_address, address = [address, total_received, total_sent,
\* transaction_count]
add_address(G, address, maxn) ==
    LET addr_id == AddrId(address.address)
        new == [total_received |-> address.total_received,
                total_sent |-> address.total_sent,
                transaction_count |-> address.transaction_count]
    IN
    IF addr_id \notin DOMAIN G.nodes
    THEN IF Cardinality(DOMAIN G.nodes) >= maxn THEN G
         ELSE GEmit(GAddNode(G, addr_id, "address", 0, new), "node_added", addr_id, NoId)
    ELSE
      LET existing_data == IF addr_id \in DOMAIN G.addr_data
                           THEN G.addr_data[addr_id] ELSE NoData
          aggregated ==
            [total_received |-> existing_data.total_received + new.total_received,
             total_sent |-> existing_data.total_sent + new.total_sent,
             transaction_count |-> existing_data.transaction_count + new.transaction_count]
      IN GEmit(GSetData(G, addr_id, aggregated), "node_updated", addr_id, NoId)

\* The Address the builder constructs for a transaction's input / output
NewAddress(a, received, count) ==
    [address |-> a, total_received |-> received, total_sent |-> 0,
     transaction_count |-> count]

\* add_transaction, the loop over transaction.inputs; an input's address is
\* optional, 0 stands for None
RECURSIVE ConnectInputs(_, _, _, _)
ConnectInputs(G, tx_id, inputs, maxn) ==
    IF inputs = <<>> THEN G
    ELSE
      LET inp == Head(inputs)
          addr_id == AddrId(inp)
          G1 == IF addr_id \notin DOMAIN G.nodes
                THEN add_address(G, NewAddress(inp, 0, 0), maxn) ELSE G
          G2 == IF <<addr_id, tx_id>> \notin DOMAIN G1.edges
                THEN GEmit(GAddEdge(G1, addr_id, tx_id, "tx_input", 0),
                           "edge_added", addr_id, tx_id)
                ELSE G1
      IN IF inp = 0 THEN ConnectInputs(G, tx_id, Tail(inputs), maxn)
         ELSE ConnectInputs(G2, tx_id, Tail(inputs), maxn)

\* add_transaction, the loop over transaction.outputs
RECURSIVE ConnectOutputs(_, _, _, _)
ConnectOutputs(G, tx_id, outputs, maxn) ==
    IF outputs = <<>> THEN G
    ELSE
      LET out == Head(outputs)
          addr_id == AddrId(out.address)
          G1 == IF addr_id \notin DOMAIN G.nodes
                THEN add_address(G, NewAddress(out.address, out.amount, 1), maxn) ELSE G
          G2 == IF <<tx_id, addr_id>> \notin DOMAIN G1.edges
                THEN GEmit(GAddEdge(G1, tx_id, addr_id, "tx_output", out.amount),
                           "edge_added", tx_id, addr_id)
                ELSE G1
      IN ConnectOutputs(G2, tx_id, Tail(outputs), maxn)

\* GraphBuilder.add_transaction, transaction = [tx_hash, block_hash, inputs, outputs]
add_transaction(G, transaction, maxn) ==
    LET tx_id == TxId(transaction.tx_hash)
        block_id == BlockId(transaction.block_hash)
    IN
    IF Cardinality(DOMAIN G.nodes) >= maxn THEN G
    ELSE
      LET G1 == IF tx_id \notin DOMAIN G.nodes
                THEN GEmit(GAddNode(G, tx_id, "transaction", 0, NoData),
                           "node_added", tx_id, NoId)
                ELSE G
          G2 == IF block_id \in DOMAIN G1.nodes /\ <<block_id, tx_id>> \notin DOMAIN G1.edges
                THEN GEmit(GAddEdge(G1, block_id, tx_id, "block_tx", 0),
                           "edge_added", block_id, tx_id)
                ELSE G1
          G3 == ConnectInputs(G2, tx_id, transaction.inputs, maxn)
      IN ConnectOutputs(G3, tx_id, transaction.outputs, maxn)

----------------------------------------------------------------------------
(* AnalyticsEngine: cache invalidation *)

\* AnalyticsEngine._on_graph_update on the dirty flags; ev is a PEmit record
OnGraphUpdateEdgeKeepsDegree(flags, ev) ==
    IF ev.t = "node_added"
    THEN IF ev.a # NoId THEN [f \in Families |-> TRUE] ELSE flags
    ELSE IF ev.t = "edge_added"
    THEN IF ev.a # NoId /\ ev.b # NoId
         THEN [flags EXCEPT !["activity"] = TRUE]
         ELSE flags
    ELSE flags

OnGraphUpdateAnyEventDirties(flags, ev) ==
    IF ev.a # NoId THEN [f \in Families |-> TRUE] ELSE flags

_on_graph_update(flags, ev) ==
    IF ev.t = "node_added"
    THEN IF ev.a # NoId THEN [f \in Families |-> TRUE] ELSE flags
    ELSE IF ev.t = "edge_added"
    THEN IF ev.a # NoId /\ ev.b # NoId
         THEN [flags EXCEPT !["degree"] = TRUE, !["activity"] = TRUE]
         ELSE flags
    ELSE flags

\* GraphBuilder._emit_update calls every registered callback synchronously:
\* the flags after the events of a log, in order
RECURSIVE Deliver(_, _)
Deliver(flags, log) ==
    IF log = <<>> THEN flags
    ELSE IF Len(log) = 1
    THEN IF log[1].p = "emit" THEN _on_graph_update(flags, log[1]) ELSE flags
    ELSE LET half == Len(log) \div 2 IN
         Deliver(Deliver(flags, SubSeq(log, 1, half)), SubSeq(log, half + 1, Len(log)))


----------------------------------------------------------------------------
(* AnalyticsEngine: degree analyzer *)

in_degree(E, n) == Cardinality({e \in DOMAIN E : e[2] = n})
out_degree(E, n) == Cardinality({e \in DOMAIN E : e[1] = n})

\* the loop of calculate_node_degrees over graph.nodes()
ComputeDegrees(N, E) ==
    [n \in DOMAIN N |->
        [in_degree |-> in_degree(E, n),
         out_degree |-> out_degree(E, n),
         total_degree |-> in_degree(E, n) + out_degree(E, n)]]

CalculateNodeDegreesCacheFirst(flags, cache, N, E) ==
    IF DOMAIN cache # {}
    THEN [metrics |-> cache, cache |-> cache, flags |-> flags]
    ELSE LET degree_metrics == ComputeDegrees(N, E) IN
         [metrics |-> degree_metrics, cache |-> degree_metrics,
          flags |-> [flags EXCEPT !["degree"] = FALSE]]

\* AnalyticsEngine.calculate_node_degrees: the metrics it returns and the
\* cache and flags it leaves
calculate_node_degrees(flags, cache, N, E) ==
    IF ~flags["degree"] /\ DOMAIN cache # {}
    THEN [metrics |-> cache, cache |-> cache, flags |-> flags]
    ELSE LET degree_metrics == ComputeDegrees(N, E) IN
         [metrics |-> degree_metrics, cache |-> degree_metrics,
          flags |-> [flags EXCEPT !["degree"] = FALSE]]

\* AnalyticsEngine.calculate_type_specific_degree; on a DiGraph,
\* graph.edges(node_id) is the view of the node's outgoing edges
calculate_type_specific_degree(N, E, node_id) ==
    IF node_id \notin DOMAIN N THEN 0
    ELSE LET node_type == N[node_id].type IN
      IF node_type = "block"
      THEN Cardinality({e \in DOMAIN E : e[1] = node_id /\ E[e].type = "block_tx"})
      ELSE IF node_type = "transaction"
      THEN Cardinality({e \in DOMAIN E : e[2] = node_id /\ E[e].type = "tx_input"})
           + Cardinality({e \in DOMAIN E : e[1] = node_id /\ E[e].type = "tx_output"})
      ELSE IF node_type = "address"
      THEN Cardinality({e \in DOMAIN E : e[1] = node_id})
      ELSE 0

\* AnalyticsEngine.store_degree_metrics: the node attributes after the write-back
store_degree_metrics(degree_metrics, attrs, N, E) ==
    LET written == DOMAIN degree_metrics \cap DOMAIN N IN
    [n \in DOMAIN attrs \cup written |->
        IF n \in written
        THEN [degree |-> degree_metrics[n].total_degree,
              in_degree |-> degree_metrics[n].in_degree,
              out_degree |-> degree_metrics[n].out_degree,
              type_degree |-> calculate_type_specific_degree(N, E, n)]
        ELSE attrs[n]]

NodeTypeOrUnknown(N, n) == IF N[n].type = "none" THEN "unknown" ELSE N[n].type

\* AnalyticsEngine.get_degree_metrics, the result list; node_type "" and
\* node_id NoId stand for None
DegreeResults(attrs, N, E, node_type, node_id) ==
    {[node_id |-> nid,
      node_type |-> NodeTypeOrUnknown(N, nid),
      in_degree |-> IF nid \in DOMAIN attrs THEN attrs[nid].in_degree ELSE 0,
      out_degree |-> IF nid \in DOMAIN attrs THEN attrs[nid].out_degree ELSE 0,
      total_degree |-> IF nid \in DOMAIN attrs THEN attrs[nid].degree ELSE 0,
      type_degree |-> calculate_type_specific_degree(N, E, nid)] :
        nid \in {x \in DOMAIN N : /\ (node_id # NoId => x = node_id)
                                  /\ (node_type # "" => N[x].type = node_type)}}

----------------------------------------------------------------------------
(* AnalyticsEngine: activity scorer.  The colour computed from the         *)
(* normalized value (apply_color_coding) is not part of the model; the     *)
(* node attributes keep the score and the scheme.                          *)

\* AnalyticsEngine.calculate_activity_metrics
calculate_activity_metrics(N, E) ==
    [n \in DOMAIN N |->
        [raw_value |-> IF N[n].type \in {"block", "transaction", "address"}
                       THEN calculate_type_specific_degree(N, E, n) ELSE 0,
         node_type |-> N[n].type]]

SetMin(S) == CHOOSE x \in S : \A y \in S : x <= y
SetMax(S) == CHOOSE x \in S : \A y \in S : x >= y

NormalizeOverAllNodes(activity_metrics) ==
    LET all == {activity_metrics[n].raw_value : n \in DOMAIN activity_metrics}
    IN [n \in DOMAIN activity_metrics |->
          LET metrics == activity_metrics[n]
              min_val == SetMin(all)
              max_val == SetMax(all)
          IN [raw_value |-> metrics.raw_value,
              node_type |-> metrics.node_type,
              normalized_value |->
                  IF max_val = min_val THEN RInt(50)
                  ELSE RMul(Rat(metrics.raw_value - min_val, max_val - min_val), RInt(100)),
              min_value |-> min_val,
              max_value |-> max_val]]

\* AnalyticsEngine.normalize_activity_values
normalize_activity_values(activity_metrics) ==
    LET by_type(t) == {activity_metrics[n].raw_value :
                          n \in {m \in DOMAIN activity_metrics :
                                    activity_metrics[m].node_type = t}}
    IN [n \in DOMAIN activity_metrics |->
          LET metrics == activity_metrics[n]
              min_val == SetMin(by_type(metrics.node_type))
              max_val == SetMax(by_type(metrics.node_type))
          IN [raw_value |-> metrics.raw_value,
              node_type |-> metrics.node_type,
              normalized_value |->
                  IF max_val = min_val THEN RInt(50)
                  ELSE RMul(Rat(metrics.raw_value - min_val, max_val - min_val), RInt(100)),
              min_value |-> min_val,
              max_value |-> max_val]]

\* AnalyticsEngine.store_color_attributes
store_color_attributes(colored_metrics, attrs, N, color_scheme) ==
    LET written == DOMAIN colored_metrics \cap DOMAIN N IN
    [n \in DOMAIN attrs \cup written |->
        IF n \in written
        THEN [color_scheme |-> color_scheme,
              activity_score |-> colored_metrics[n].normalized_value]
        ELSE attrs[n]]

\* AnalyticsEngine.get_activity_metrics, the result list
ActivityResults(colored_metrics, node_type) ==
    {[node_id |-> n,
      node_type |-> colored_metrics[n].node_type,
      raw_value |-> colored_metrics[n].raw_value,
      normalized_value |-> colored_metrics[n].normalized_value] :
        n \in {m \in DOMAIN colored_metrics :
                  node_type # "" => colored_metrics[m].node_type = node_type}}

----------------------------------------------------------------------------
(* AnalyticsEngine: statistics and anomaly detection.  A population is a   *)
(* function node id -> value.  mean is a rational, var is the square of    *)
(* the sample standard deviation (statistics.stdev).  A score is           *)
(* [sgn, sq]: the number sgn * sqrt(sq), which represents the rational     *)
(* scores of the percentile and threshold methods and the z-score based    *)
(* score alike.                                                            *)

Sign(x) == IF x > 0 THEN 1 ELSE IF x < 0 THEN -1 ELSE 0

Score(r) == [sgn |-> Sign(r[1]), sq |-> RMul(r, r)]
ScoreZero == Score(RInt(0))
ScoreHundred == Score(RInt(100))

\* min(100, x) on a score
MinHundred(x) ==
    IF x.sgn > 0 /\ RLess(RInt(10000), x.sq) THEN ScoreHundred ELSE x

\* sorted(values)[i], i counted from 0; values is the list of values as
\* a set of <<node id, value>> pairs
SortedAt(values, i) ==
    CHOOSE v \in {q[2] : q \in values} :
        /\ Cardinality({q \in values : q[2] < v}) <= i
        /\ i < Cardinality({q \in values : q[2] <= v})

\* AnalyticsEngine._calculate_statistics
_calculate_statistics(values) ==
    LET n == Cardinality(values)
        sum == SumValues(values)
        sumsq == SumValues({<<q[1], q[2] * q[2]>> : q \in values})
        idx_5 == Max(0, (5 * n) \div 100)
        idx_95 == Min(n - 1, (95 * n) \div 100)
    IN
    IF n = 0
    THEN [mean |-> RInt(0), var |-> RInt(0), percentile_5 |-> 0, percentile_95 |-> 0]
    ELSE [mean |-> Rat(sum, n),
          var |-> IF n > 1 THEN Rat(n * sumsq - sum * sum, n * (n - 1)) ELSE RInt(0),
          percentile_5 |-> IF n = 1 THEN SortedAt(values, 0) ELSE SortedAt(values, idx_5),
          percentile_95 |-> IF n = 1 THEN SortedAt(values, 0) ELSE SortedAt(values, idx_95)]

\* the sum of the weights of a node's outgoing tx_output edges
OutputValue(E, node_id) ==
    SumValues({<<e, E[e].weight>> :
                  e \in {x \in DOMAIN E : x[1] = node_id /\ E[x].type = "tx_output"}})

NodesOfType(N, node_type) == {n \in DOMAIN N : N[n].type = node_type}

\* the value statistics and detectors read for a node: a block's
\* transaction count, a transaction's value
ActualValue(N, E, node_type, node_id) ==
    IF node_type = "block" THEN calculate_type_specific_degree(N, E, node_id)
    ELSE OutputValue(E, node_id)

\* the nodes of a type, each with its value
Population(N, E, node_type) ==
    {<<n, ActualValue(N, E, node_type, n)>> : n \in NodesOfType(N, node_type)}

\* AnalyticsEngine.calculate_statistics
calculate_statistics(N, E, node_type, metric_type) ==
    IF \/ (metric_type = "transaction_count" /\ node_type = "block")
       \/ (metric_type = "value" /\ node_type = "transaction")
    THEN _calculate_statistics(Population(N, E, node_type))
    ELSE _calculate_statistics({})

AnomalyType(node_type) ==
    IF node_type = "block" THEN "high_transaction_count" ELSE "high_transaction_value"

Anomaly(node_id, node_type, score, value, method) ==
    [node_id |-> node_id, node_type |-> node_type, is_anomaly |-> TRUE,
     anomaly_score |-> score, anomaly_type |-> AnomalyType(node_type),
     actual_value |-> value, detection_method |-> method]

Detected(anomalies) == [raised |-> FALSE, anomalies |-> anomalies]
Raised == [raised |-> TRUE, anomalies |-> {}]

\* the statistics a detector starts from
DetectorStats(N, E, node_type) ==
    calculate_statistics(N, E, node_type,
                         IF node_type = "block" THEN "transaction_count" ELSE "value")

\* the square of z_score = abs(actual_value - mean) / std
ZScoreSquared(actual_value, stats) ==
    RDiv(RMul(RSub(RInt(actual_value), stats.mean), RSub(RInt(actual_value), stats.mean)),
         stats.var)

\* AnalyticsEngine.detect_anomalies_zscore; threshold is a rational.
\* z_score / threshold raises ZeroDivisionError when threshold is 0.
detect_anomalies_zscore(N, E, node_type, threshold) ==
    IF node_type \notin {"block", "transaction"} THEN Detected({})
    ELSE
      LET stats == DetectorStats(N, E, node_type)
          is_anomaly(q) == \/ threshold[1] < 0
                           \/ RLess(RMul(threshold, threshold), ZScoreSquared(q[2], stats))
          flagged == {q \in Population(N, E, node_type) : is_anomaly(q)}
          anomaly_score(q) ==
              MinHundred([sgn |-> IF ZScoreSquared(q[2], stats)[1] = 0 THEN 0
                                  ELSE Sign(threshold[1]),
                          sq |-> RMul(RDiv(ZScoreSquared(q[2], stats),
                                           RMul(threshold, threshold)),
                                      RInt(2500))])
      IN IF stats.var[1] = 0 THEN Detected({})
         ELSE IF flagged # {} /\ threshold[1] = 0 THEN Raised
         ELSE Detected({Anomaly(q[1], node_type, anomaly_score(q), q[2], "zscore") :
                           q \in flagged})

\* min(100, 50 + score_factor * 50)
FactorScore(score_factor) ==
    MinHundred(Score(RAdd(RInt(50), RMul(score_factor, RInt(50)))))

\* AnalyticsEngine.detect_anomalies_percentile
detect_anomalies_percentile(N, E, node_type) ==
    IF node_type \notin {"block", "transaction"} THEN Detected({})
    ELSE
      LET stats == DetectorStats(N, E, node_type)
          p95 == stats.percentile_95
          p5 == stats.percentile_5
          score_factor(actual_value) ==
              IF actual_value > p95
              THEN IF RLess(stats.mean, RInt(p95))
                   THEN RDiv(RInt(actual_value - p95), RSub(RInt(p95), stats.mean))
                   ELSE RInt(1)
              ELSE IF RLess(RInt(p5), stats.mean)
                   THEN RDiv(RInt(p5 - actual_value), RSub(stats.mean, RInt(p5)))
                   ELSE RInt(1)
      IN Detected({Anomaly(q[1], node_type, FactorScore(score_factor(q[2])), q[2],
                           "percentile") :
                      q \in {x \in Population(N, E, node_type) : x[2] > p95 \/ x[2] < p5}})

\* AnalyticsEngine.detect_anomalies_threshold
detect_anomalies_threshold(N, E, node_type, threshold) ==
    IF node_type \notin {"block", "transaction"} THEN Detected({})
    ELSE
      LET stats == DetectorStats(N, E, node_type)
          threshold_value == RMul(threshold, stats.mean)
          score_factor(actual_value) ==
              IF threshold_value[1] > 0
              THEN RDiv(RSub(RInt(actual_value), threshold_value), threshold_value)
              ELSE RInt(1)
      IN Detected({Anomaly(q[1], node_type, FactorScore(score_factor(q[2])), q[2],
                           "threshold") :
                      q \in {x \in Population(N, E, node_type) :
                                RLess(threshold_value, RInt(x[2]))}})

\* detect_anomalies, the body of the loop for one node type
DetectOneTypeTotalCount(N, E, nt, method, threshold) ==
    IF Cardinality(DOMAIN N) < MinPopulation THEN Detected({})
    ELSE IF method = "zscore" THEN detect_anomalies_zscore(N, E, nt, threshold)
    ELSE IF method = "percentile" THEN detect_anomalies_percentile(N, E, nt)
    ELSE IF method = "threshold" THEN detect_anomalies_threshold(N, E, nt, threshold)
    ELSE Detected({})

DetectOneType(N, E, nt, method, threshold) ==
    IF Cardinality(NodesOfType(N, nt)) < MinPopulation THEN Detected({})
    ELSE IF method = "zscore" THEN detect_anomalies_zscore(N, E, nt, threshold)
    ELSE IF method = "percentile" THEN detect_anomalies_percentile(N, E, nt)
    ELSE IF method = "threshold" THEN detect_anomalies_threshold(N, E, nt, threshold)
    ELSE Detected({})

\* AnalyticsEngine.detect_anomalies; node_type "" stands for None.  An
\* exception in the pass over one node type ends the call.
detect_anomalies(N, E, node_type, method, threshold) ==
    IF node_type # "" THEN DetectOneType(N, E, node_type, method, threshold)
    ELSE LET blocks == DetectOneType(N, E, "block", method, threshold)
             transactions == DetectOneType(N, E, "transaction", method, threshold)
         IN IF blocks.raised \/ transactions.raised THEN Raised
            ELSE Detected(blocks.anomalies \cup transactions.anomalies)

NotAnomalous == [is_anomaly |-> FALSE, anomaly_score |-> ScoreZero, anomaly_type |-> "null"]

\* AnalyticsEngine.store_anomaly_attributes, the first loop
ClearAnomalyAttributes(attrs, N) ==
    [n \in DOMAIN attrs \cup DOMAIN N |-> IF n \in DOMAIN N THEN NotAnomalous ELSE attrs[n]]

\* AnalyticsEngine.store_anomaly_attributes, the second loop
SetAnomalyAttributes(attrs, N, anomalies) ==
    LET flagged == {a.node_id : a \in anomalies} \cap DOMAIN N IN
    [n \in DOMAIN attrs \cup flagged |->
        IF n \in flagged
        THEN LET a == CHOOSE x \in anomalies : x.node_id = n IN
             [is_anomaly |-> TRUE, anomaly_score |-> a.anomaly_score,
              anomaly_type |-> a.anomaly_type]
        ELSE attrs[n]]

StoreOnlySets(anomalies, attrs, N) == SetAnomalyAttributes(attrs, N, anomalies)

store_anomaly_attributes(anomalies, attrs, N) ==
    SetAnomalyAttributes(ClearAnomalyAttributes(attrs, N), N, anomalies)

----------------------------------------------------------------------------
(* Operations, single-threaded: every call runs to completion *)

Op(op, family, node_type, node_id, method, threshold, raised) ==
    [op |-> op, family |-> family, node_type |-> node_type, node_id |-> node_id,
     method |-> method, threshold |-> threshold, raised |-> raised]

NoThreshold == <<0, 1>>

Mutation(op) == Op(op, "", "", NoId, "", NoThreshold, FALSE)

BuilderState ==
    [nodes |-> nodes, edges |-> edges, addr_data |-> addr_data,
     block_heights |-> block_heights, log |-> <<>>]

IsEmit(pr) == pr.p = "emit"

\* web_server.on_graph_update, the other registered callback, appends every
\* event to update_queue.  Of the queue the model keeps the nodes whose
\* node_added event it holds, and the edges whose edge_added event it holds
\* ahead of the node_added event of one of the edge's endpoints.
on_graph_update(queue, update_data) ==
    IF update_data.t = "node_added"
    THEN [queue EXCEPT !.node_added = @ \cup {update_data.a}]
    ELSE IF update_data.t = "edge_added"
            /\ ~({update_data.a, update_data.b} \subseteq queue.node_added)
    THEN [queue EXCEPT !.early_edges = @ \cup {<<update_data.a, update_data.b>>}]
    ELSE queue

\* the queue after on_graph_update has run on every event of a log, in order
Queue(queue, log) ==
    LET NodeAdded(i) == IsEmit(log[i]) /\ log[i].t = "node_added"
        EdgeAdded(i) == IsEmit(log[i]) /\ log[i].t = "edge_added"
        Before(i) == queue.node_added \cup {log[j].a : j \in {j \in 1..(i - 1) : NodeAdded(j)}}
    IN [node_added |-> queue.node_added
                         \cup {log[i].a : i \in {i \in DOMAIN log : NodeAdded(i)}},
        early_edges |-> queue.early_edges
                          \cup {<<log[i].a, log[i].b>> :
                                  i \in {i \in DOMAIN log :
                                            /\ EdgeAdded(i)
                                            /\ ~({log[i].a, log[i].b} \subseteq Before(i))}}]

\* the graph, the dirty flags and the event queue after a builder operation
Commit(G, op) ==
    /\ nodes' = G.nodes
    /\ edges' = G.edges
    /\ addr_data' = G.addr_data
    /\ block_heights' = G.block_heights
    /\ update_queue' = Queue(update_queue, G.log)
    /\ dirty' = Deliver(dirty, G.log)
    /\ lastOp' = Mutation(op)
    /\ result' = {}

SmallBlocks == {[block_hash |-> h, block_height |-> h] : h \in 1..MaxBlocks}

\* transaction shapes: one input and one output; an input without address
\* and two outputs paying the same address; two inputs
TxShapes ==
    <<[inputs |-> <<1>>, outputs |-> <<[address |-> 2, amount |-> 1]>>],
      [inputs |-> <<0>>, outputs |-> <<[address |-> 2, amount |-> 1],
                                       [address |-> 2, amount |-> 2]>>],
      [inputs |-> <<1, 2>>, outputs |-> <<[address |-> 1, amount |-> 1]>>]>>

\* a transaction hash fixes the transaction's content
SmallTx(t) ==
    LET s == TxShapes[((t - 1) % Len(TxShapes)) + 1] IN
    [tx_hash |-> t, block_hash |-> ((t - 1) % MaxBlocks) + 1,
     inputs |-> s.inputs, outputs |-> s.outputs]

SmallTxs == {SmallTx(t) : t \in 1..MaxTxs}

SmallAddresses ==
    {[address |-> a, total_received |-> 0, total_sent |-> 0, transaction_count |-> 0] :
        a \in 1..MaxAddrs}

AddBlock ==
    \E block \in SmallBlocks :
        /\ Commit(add_block(BuilderState, block, MAX_NODES), "add_block")
        /\ UNCHANGED <<MAX_NODES, degree_cache, attrVars, fetchVars, prevFlagged, threadVars>>

AddTransaction ==
    \E transaction \in SmallTxs :
        /\ Commit(add_transaction(BuilderState, transaction, MAX_NODES), "add_transaction")
        /\ UNCHANGED <<MAX_NODES, degree_cache, attrVars, fetchVars, prevFlagged, threadVars>>

AddAddress ==
    \E address \in SmallAddresses :
        /\ Commit(add_address(BuilderState, address, MAX_NODES), "add_address")
        /\ UNCHANGED <<MAX_NODES, degree_cache, attrVars, fetchVars, prevFlagged, threadVars>>

\* (node_type, node_id) filters of the degree query
DegreeFilters == {<<"", NoId>>, <<"address", NoId>>, <<"", TxId(1)>>}

GetDegreeMetrics ==
    \E flt \in DegreeFilters : LET node_type == flt[1] node_id == flt[2] IN
        LET c == calculate_node_degrees(dirty, degree_cache, nodes, edges)
            attrs == store_degree_metrics(c.metrics, degree_attr, nodes, edges)
        IN /\ degree_cache' = c.cache
           /\ dirty' = c.flags
           /\ degree_attr' = attrs
           /\ result' = DegreeResults(attrs, nodes, edges, node_type, node_id)
           /\ lastOp' = Op("get_degree_metrics", "degree", node_type, node_id, "",
                           NoThreshold, FALSE)
           /\ UNCHANGED <<graphVars, activity_attr, anomaly_attr, cluster_attr, fetchVars,
                          prevFlagged, threadVars>>

\* AnalyticsEngine.get_activity_metrics
GetActivityMetrics ==
    \E node_type \in {"", "block"}, color_scheme \in {"heatmap"} :
        LET colored_metrics ==
                normalize_activity_values(calculate_activity_metrics(nodes, edges))
        IN /\ activity_attr' = store_color_attributes(colored_metrics, activity_attr,
                                                      nodes, color_scheme)
           /\ result' = ActivityResults(colored_metrics, node_type)
           /\ lastOp' = Op("get_activity_metrics", "activity", node_type, NoId,
                           color_scheme, NoThreshold, FALSE)
           /\ UNCHANGED <<graphVars, engineVars, degree_attr, anomaly_attr, cluster_attr, fetchVars,
                          prevFlagged, threadVars>>

\* web_server.recalculate_analytics; lastOp keeps the description of the
\* last query and result what that query returned
RecalculateAnalytics ==
    /\ dirty' = [f \in Families |-> TRUE]
    /\ degree_cache' = EmptyFn
    /\ lastOp' = [lastOp EXCEPT !.op = "recalculate_analytics", !.raised = FALSE]
    /\ UNCHANGED <<graphVars, attrVars, result, fetchVars, prevFlagged, threadVars>>

\* the state after GraphBuilder(), DataFetcher(graph_builder) and
\* AnalyticsEngine(graph_builder)
InitCommon ==
    /\ nodes = EmptyFn
    /\ edges = EmptyFn
    /\ addr_data = EmptyFn
    /\ block_heights = EmptyFn
    /\ update_queue = [node_added |-> {}, early_edges |-> {}]
    /\ dirty = [f \in Families |-> TRUE]
    /\ degree_cache = EmptyFn
    /\ degree_attr = EmptyFn
    /\ activity_attr = EmptyFn
    /\ anomaly_attr = EmptyFn
    /\ cluster_attr = EmptyFn
    /\ lastOp = Mutation("init")
    /\ result = {}
    /\ last_block_height = 0
    /\ api_status = "connected"
    /\ rate_limit_status = [limited |-> FALSE]
    /\ error_state = "None"
    /\ consecutive_errors = 0
    /\ prevFlagged = {}
    /\ ingest = <<>>
    /\ qpc = <<"idle", "idle">>
    /\ qlocal = <<{}, {}>>
    /\ lastCompleted = {}
    /\ budget = [ingest |-> MaxIngestOps, query |-> MaxQueries]

Init ==
    /\ InitCommon
    /\ MAX_NODES \in {SmallMaxNodes, DefaultMaxNodes}
    /\ chain = <<>>

Next ==
    \/ AddBlock
    \/ AddTransaction
    \/ AddAddress
    \/ GetDegreeMetrics
    \/ RecalculateAnalytics

Spec == Init /\ [][Next]_vars

----------------------------------------------------------------------------
(* Ingestion thread and query thread (specification SpecIngest).           *)
(* web_server.start_background_polling runs DataFetcher.start_polling on   *)
(* its own thread; the Flask request handlers call the engine from others. *)
(* Neither GraphBuilder nor AnalyticsEngine holds a lock, so a builder     *)
(* operation is the sequence of its graph mutations and event deliveries   *)
(* and a query is the sequence of its statements.  Only the ingestion      *)
(* thread adds nodes and edges, so the steps of a builder operation are    *)
(* the log the operation produces from the graph it starts on.             *)

\* one graph mutation of a log applied to the builder state
Replay(G, pr) ==
    IF pr.p = "node" THEN GAddNode(G, pr.a, pr.t, pr.n, pr.d)
    ELSE IF pr.p = "edge" THEN GAddEdge(G, pr.a, pr.b, pr.t, pr.n)
    ELSE IF pr.p = "data" THEN GSetData(G, pr.a, pr.d)
    ELSE G

\* the ingestion thread enters add_block / add_transaction / add_address
IngestStart ==
    /\ ingest = <<>>
    /\ budget.ingest > 0
    /\ budget' = [budget EXCEPT !.ingest = @ - 1]
    /\ \E G \in {add_block(BuilderState, b, MAX_NODES) : b \in SmallBlocks}
             \cup {add_transaction(BuilderState, t, MAX_NODES) : t \in SmallTxs}
             \cup {add_address(BuilderState, a, MAX_NODES) : a \in SmallAddresses} :
          /\ G.log # <<>>
          /\ ingest' = G.log
    /\ lastOp' = Mutation("ingest")
    /\ UNCHANGED <<graphVars, engineVars, attrVars, result, fetchVars, prevFlagged,
                   qpc, qlocal, lastCompleted>>

\* the ingestion thread runs its next statement: a graph mutation, or
\* _emit_update calling the engine's _on_graph_update
IngestStep ==
    /\ ingest # <<>>
    /\ LET pr == Head(ingest)
           G == Replay(BuilderState, pr)
       IN /\ nodes' = G.nodes
          /\ edges' = G.edges
          /\ addr_data' = G.addr_data
          /\ block_heights' = G.block_heights
          /\ update_queue' = IF IsEmit(pr) THEN on_graph_update(update_queue, pr)
                              ELSE update_queue
          /\ dirty' = IF pr.p = "emit" THEN _on_graph_update(dirty, pr) ELSE dirty
          /\ lastOp' = IF pr.p = "emit"
                       THEN Op("_on_graph_update", "", pr.t, pr.a, "", NoThreshold, FALSE)
                       ELSE Mutation("ingest")
    /\ ingest' = Tail(ingest)
    /\ UNCHANGED <<MAX_NODES, degree_cache, attrVars, result, fetchVars, prevFlagged,
                   qpc, qlocal, lastCompleted, budget>>

DegreeQueryReadClearsFlag ==
    /\ qpc[1] = "idle"
    /\ budget.query > 0
    /\ budget' = [budget EXCEPT !.query = @ - 1]
    /\ IF ~dirty["degree"] /\ DOMAIN degree_cache # {}
       THEN /\ qlocal' = [qlocal EXCEPT ![1] = {degree_cache}]
            /\ qpc' = [qpc EXCEPT ![1] = "store"]
            /\ dirty' = dirty
       ELSE /\ qlocal' = [qlocal EXCEPT ![1] = {ComputeDegrees(nodes, edges)}]
            /\ qpc' = [qpc EXCEPT ![1] = "set_cache"]
            /\ dirty' = [dirty EXCEPT !["degree"] = FALSE]
    /\ lastOp' = Mutation("query")
    /\ UNCHANGED <<graphVars, degree_cache, attrVars, result, fetchVars, prevFlagged,
                   ingest, lastCompleted>>

\* get_degree_metrics -> store_degree_metrics -> calculate_node_degrees,
\* lines 239-253: the cache test, and on a miss the loop over graph.nodes()
DegreeQueryRead ==
    /\ qpc[1] = "idle"
    /\ budget.query > 0
    /\ budget' = [budget EXCEPT !.query = @ - 1]
    /\ IF ~dirty["degree"] /\ DOMAIN degree_cache # {}
       THEN /\ qlocal' = [qlocal EXCEPT ![1] = {degree_cache}]
            /\ qpc' = [qpc EXCEPT ![1] = "store"]
       ELSE /\ qlocal' = [qlocal EXCEPT ![1] = {ComputeDegrees(nodes, edges)}]
            /\ qpc' = [qpc EXCEPT ![1] = "set_cache"]
    /\ lastOp' = Mutation("query")
    /\ UNCHANGED <<graphVars, engineVars, attrVars, result, fetchVars, prevFlagged,
                   ingest, lastCompleted>>

\* calculate_node_degrees, lines 243-253: the ingestion thread added a node
\* while the loop was iterating graph.nodes(); the dict iterator raises
\* RuntimeError (dictionary changed size during iteration) and the query ends
DegreeQueryRaise ==
    /\ qpc[1] = "set_cache"
    /\ \E m \in qlocal[1] : DOMAIN m # DOMAIN nodes
    /\ qpc' = [qpc EXCEPT ![1] = "idle"]
    /\ qlocal' = [qlocal EXCEPT ![1] = {}]
    /\ result' = {}
    /\ lastOp' = Op("get_degree_metrics", "degree", "", NoId, "", NoThreshold, TRUE)
    /\ UNCHANGED <<graphVars, engineVars, attrVars, fetchVars, prevFlagged, ingest,
                   lastCompleted, budget>>

\* calculate_node_degrees, line 255
DegreeQuerySetCache ==
    /\ qpc[1] = "set_cache"
    /\ degree_cache' = CHOOSE m \in qlocal[1] : TRUE
    /\ qpc' = [qpc EXCEPT ![1] = "clear"]
    /\ lastOp' = Mutation("query")
    /\ UNCHANGED <<graphVars, dirty, attrVars, result, fetchVars, prevFlagged,
                   ingest, qlocal, lastCompleted, budget>>

\* calculate_node_degrees, line 256
DegreeQueryClearFlag ==
    /\ qpc[1] = "clear"
    /\ dirty' = [dirty EXCEPT !["degree"] = FALSE]
    /\ qpc' = [qpc EXCEPT ![1] = "store"]
    /\ lastOp' = Mutation("query")
    /\ UNCHANGED <<graphVars, degree_cache, attrVars, result, fetchVars, prevFlagged,
                   ingest, qlocal, lastCompleted, budget>>

\* store_degree_metrics, lines 299-305, and get_degree_metrics, lines 320-342
DegreeQueryStore ==
    /\ qpc[1] = "store"
    /\ LET degree_metrics == CHOOSE m \in qlocal[1] : TRUE
           attrs == store_degree_metrics(degree_metrics, degree_attr, nodes, edges)
       IN /\ degree_attr' = attrs
          /\ result' = DegreeResults(attrs, nodes, edges, "", NoId)
    /\ qpc' = [qpc EXCEPT ![1] = "idle"]
    /\ qlocal' = [qlocal EXCEPT ![1] = {}]
    /\ lastOp' = Op("get_degree_metrics", "degree", "", NoId, "", NoThreshold, FALSE)
    /\ UNCHANGED <<graphVars, engineVars, activity_attr, anomaly_attr, cluster_attr, fetchVars,
                   prevFlagged, ingest, lastCompleted, budget>>

NextIngest ==
    \/ IngestStart
    \/ IngestStep
    \/ DegreeQueryRead
    \/ DegreeQueryRaise
    \/ DegreeQuerySetCache
    \/ DegreeQueryClearFlag
    \/ DegreeQueryStore

\* the threaded deployment runs with the default MAX_NODES
InitIngest ==
    /\ InitCommon
    /\ MAX_NODES = DefaultMaxNodes
    /\ chain = <<>>

SpecIngest == InitIngest /\ [][NextIngest]_vars

\* C3: _on_graph_update sets the dirty flags by event kind: node_added sets
\* all five; edge_added sets degree and activity and leaves anomaly, cluster
\* and flow as they were; any other kind changes no flag.
C3_InvalidationByKind ==
    [][(ingest # <<>> /\ ingest' = Tail(ingest) /\ Head(ingest).p = "emit") =>
          LET ev == Head(ingest) IN
          /\ (ev.t = "node_added" /\ ev.a # NoId) => \A f \in Families : dirty'[f]
          /\ (ev.t = "edge_added" /\ ev.a # NoId /\ ev.b # NoId) =>
                /\ dirty'["degree"] /\ dirty'["activity"]
                /\ \A f \in {"anomaly", "cluster", "flow"} : dirty'[f] = dirty[f]
          /\ ev.t \notin {"node_added", "edge_added"} => dirty' = dirty]_vars

\* the handler has just run on a node_updated event and the degree flag,
\* cleared by an earlier query, is still clear
C3_Witness ==
    /\ lastOp.op = "_on_graph_update"
    /\ lastOp.node_type = "node_updated"
    /\ ~dirty["degree"]
    /\ DOMAIN degree_cache # {}

\* C4: with ingestion and a degree query on different threads, once both
\* have finished a clear degree flag means the degree cache holds the
\* degrees of the graph as it is: no invalidation is lost.
C4_NoLostInvalidation ==
    (ingest = <<>> /\ qpc[1] = "idle" /\ ~dirty["degree"] /\ DOMAIN degree_cache # {})
        => degree_cache = ComputeDegrees(nodes, edges)

----------------------------------------------------------------------------
(* Degree metrics and the cache (specification Spec) *)

\* the nodes a degree query with the given filters reports
DegreeFiltered(node_type, node_id) ==
    {x \in DOMAIN nodes : /\ (node_id # NoId => x = node_id)
                          /\ (node_type # "" => nodes[x].type = node_type)}

\* C1: single-threaded, after any sequence of add_block / add_transaction /
\* add_address calls and queries, get_degree_metrics reports for every node
\* of the graph the current number of incoming and outgoing edges, with
\* total_degree = in_degree + out_degree; and a clean, non-empty degree cache
\* always equals the degrees of the current graph, so a stale one is never
\* served.
C1_DegreesCurrent ==
    /\ (~dirty["degree"] /\ DOMAIN degree_cache # {})
          => degree_cache = ComputeDegrees(nodes, edges)
    /\ lastOp.op = "get_degree_metrics" =>
          /\ {r.node_id : r \in result} = DegreeFiltered(lastOp.node_type, lastOp.node_id)
          /\ \A r \in result :
                /\ r.in_degree = Cardinality({e \in DOMAIN edges : e[2] = r.node_id})
                /\ r.out_degree = Cardinality({e \in DOMAIN edges : e[1] = r.node_id})
                /\ r.total_degree = r.in_degree + r.out_degree

\* a degree query that reports a node with incoming and outgoing edges, all
\* nodes of a graph that was mutated after an earlier query filled the cache
C1_Witness ==
    /\ lastOp.op = "get_degree_metrics"
    /\ \E r \in result : r.in_degree > 0 /\ r.out_degree > 0
    /\ Cardinality(result) >= 4
    /\ \E n \in DOMAIN degree_attr : n \in DOMAIN nodes /\ degree_attr[n].degree >= 2

\* C2: after a query of a metric family that succeeded, the family's dirty
\* flag is clear.
C2_QueryClearsDirty ==
    (lastOp.family \in Families /\ ~lastOp.raised) => ~dirty[lastOp.family]

\* C6: the type-specific degree get_degree_metrics reports for an address
\* node is the number of all edges touching the node.
C6_AddressTypeDegreeIsTotal ==
    lastOp.op = "get_degree_metrics" =>
        \A r \in result :
            r.node_type = "address" =>
                r.type_degree = Cardinality({e \in DOMAIN edges :
                                                e[1] = r.node_id \/ e[2] = r.node_id})

----------------------------------------------------------------------------
(* DataFetcher.fetch_and_update against a chain served by the API, and the *)
(* anomaly queries (specifications SpecAnom and SpecRamp).                 *)
(* chain[h] is the sequence of transactions of the block at height h; the  *)
(* block's hash is its height.  last_block_height = 0 stands for None.     *)

\* the transactions of block h paying the given amounts, each from address
\* 1 to address 2
Txs(h, amounts) ==
    [i \in 1..Len(amounts) |->
        [tx_hash |-> 100 * h + i, inputs |-> <<1>>,
         outputs |-> <<[address |-> 2, amount |-> amounts[i]]>>]]

\* QuietLen empty blocks, then a block of one and a block of three transactions
QuietChain ==
    [h \in 1..(QuietLen + 2) |->
        IF h <= QuietLen THEN <<>>
        ELSE IF h = QuietLen + 1 THEN Txs(h, <<1>>)
        ELSE Txs(h, <<1, 1, 5>>)]

\* a block of BusyTxs transactions, one of them large, then a small block
BusyChain ==
    <<Txs(1, [i \in 1..BusyTxs |-> IF i = BusyTxs THEN 9 ELSE 1]), Txs(2, <<2>>)>>

\* block h holds h transactions; its last one pays h, the others 1
RampChain ==
    [h \in 1..RampLen |-> Txs(h, [i \in 1..h |-> IF i = h THEN h ELSE 1])]

\* fetch_and_update, lines 212-218: the addresses of a transaction's inputs
RECURSIVE AddInputAddresses(_, _, _)
AddInputAddresses(G, inputs, maxn) ==
    IF inputs = <<>> THEN G
    ELSE IF Head(inputs) = 0 THEN AddInputAddresses(G, Tail(inputs), maxn)
    ELSE AddInputAddresses(add_address(G, NewAddress(Head(inputs), 0, 0), maxn),
                           Tail(inputs), maxn)

\* fetch_and_update, lines 220-227: the addresses of a transaction's
\* outputs, after Address.update_stats(received=out.amount)
RECURSIVE AddOutputAddresses(_, _, _)
AddOutputAddresses(G, outputs, maxn) ==
    IF outputs = <<>> THEN G
    ELSE AddOutputAddresses(
             add_address(G, NewAddress(Head(outputs).address, Head(outputs).amount, 1),
                         maxn),
             Tail(outputs), maxn)

\* fetch_and_update, lines 201-236: the loop over the block's transactions
RECURSIVE ProcessTransactions(_, _, _, _)
ProcessTransactions(G, block, txs, maxn) ==
    IF txs = <<>> THEN G
    ELSE
      LET tx == Head(txs)
          transaction == [tx_hash |-> tx.tx_hash, block_hash |-> block.block_hash,
                          inputs |-> tx.inputs, outputs |-> tx.outputs]
          G1 == add_transaction(G, transaction, maxn)
          G2 == AddInputAddresses(G1, transaction.inputs, maxn)
          G3 == AddOutputAddresses(G2, transaction.outputs, maxn)
      \* a transaction that changed nothing leaves the builder state as it is
      IN IF G3 = G THEN ProcessTransactions(G, block, Tail(txs), maxn)
         ELSE ProcessTransactions(G3, block, Tail(txs), maxn)

\* fetch_and_update, lines 154-157: the status fields at the start of every
\* attempt
AttemptStatus ==
    [api_status |-> "connected", rate_limit_status |-> [limited |-> FALSE],
     error_state |-> "None", consecutive_errors |-> 0]

SetStatus(status) ==
    /\ api_status' = status.api_status
    /\ rate_limit_status' = status.rate_limit_status
    /\ error_state' = status.error_state
    /\ consecutive_errors' = status.consecutive_errors

\* DataFetcher.fetch_and_update when the API answers: the latest block is
\* the one already processed (nothing happens) or its successor
FetchAndUpdate ==
    \E tip \in {last_block_height, last_block_height + 1} \cap (1..Len(chain)) :
        LET block == [block_hash |-> tip, block_height |-> tip] IN
        IF tip <= last_block_height
        THEN /\ lastOp' = Mutation("fetch_and_update")
             /\ result' = {}
             /\ SetStatus(AttemptStatus)
             /\ UNCHANGED <<graphVars, engineVars, attrVars, chain, last_block_height,
                            prevFlagged, threadVars>>
        ELSE /\ Commit(ProcessTransactions(add_block(BuilderState, block, MAX_NODES),
                                           block, chain[tip], MAX_NODES),
                       "fetch_and_update")
             /\ last_block_height' = tip
             /\ SetStatus(AttemptStatus)
             /\ UNCHANGED <<MAX_NODES, degree_cache, attrVars, chain, prevFlagged,
                            threadVars>>

\* threshold arguments: the endpoint passes float(request.args['threshold'])
\* on without a range check
Thresholds == {<<-1, 1>>, <<0, 1>>, <<2, 1>>}

DefaultThreshold == <<2, 1>>

AnomalyQueries ==
    ({"zscore", "threshold"} \X Thresholds) \cup {<<"percentile", DefaultThreshold>>}

Flagged(attrs) == {n \in DOMAIN attrs : attrs[n].is_anomaly}

\* AnalyticsEngine.get_anomalies(node_type, method, threshold); an exception
\* of the detection leaves the attributes as they were
get_anomalies(node_type, method, threshold) ==
    LET d == detect_anomalies(nodes, edges, node_type, method, threshold) IN
    /\ anomaly_attr' = IF d.raised THEN anomaly_attr
                       ELSE store_anomaly_attributes(d.anomalies, anomaly_attr, nodes)
    /\ result' = d.anomalies
    /\ prevFlagged' = Flagged(anomaly_attr)
    /\ lastOp' = Op("get_anomalies", "anomaly", node_type, NoId, method, threshold,
                    d.raised)
    /\ UNCHANGED <<graphVars, engineVars, degree_attr, activity_attr, cluster_attr, fetchVars,
                   threadVars>>

GetAnomalies ==
    \E node_type \in {"", "block", "transaction"}, q \in AnomalyQueries :
        get_anomalies(node_type, q[1], q[2])

\* the anomaly queries of the ramp deployment
GetRampAnomalies ==
    \E node_type \in {"", "block"}, method \in {"percentile", "threshold"} :
        get_anomalies(node_type, method, DefaultThreshold)

InitAnom ==
    /\ InitCommon
    /\ MAX_NODES = DefaultMaxNodes
    /\ chain \in {QuietChain, BusyChain}

NextAnom ==
    \/ FetchAndUpdate
    \/ GetAnomalies
    \/ GetActivityMetrics

SpecAnom == InitAnom /\ [][NextAnom]_vars

InitRamp ==
    /\ InitCommon
    /\ MAX_NODES = RampMaxNodes
    /\ chain = RampChain

NextRamp ==
    \/ FetchAndUpdate
    \/ GetRampAnomalies

SpecRamp == InitRamp /\ [][NextRamp]_vars

\* C7: with 15 blocks holding 1, 2, ..., 15 transactions,
\* calculate_statistics('block', 'transaction_count') gives mean 8 and
\* percentile detection on blocks flags exactly the block with 15 and the
\* block with 1 transactions, each as high_transaction_count.
C7_RampPercentile ==
    LET pop == Population(nodes, edges, "block") IN
    (Cardinality(pop) = 15 /\ {q[2] : q \in pop} = 1..15) =>
        /\ calculate_statistics(nodes, edges, "block", "transaction_count").mean = RInt(8)
        /\ (/\ lastOp.op = "get_anomalies"
            /\ lastOp.method = "percentile"
            /\ lastOp.node_type = "block") =>
               /\ {r.actual_value : r \in result} = {1, 15}
               /\ Cardinality(result) = 2
               /\ \A r \in result : r.anomaly_type = "high_transaction_count"

\* C8: after a get_anomalies call has returned, the nodes whose is_anomaly
\* is true are exactly the nodes of the returned list, with the returned
\* score and type; every other node has is_anomaly false, score 0, type null.
C8_FlagsAreLastResult ==
    (lastOp.op = "get_anomalies" /\ ~lastOp.raised) =>
        /\ DOMAIN anomaly_attr = DOMAIN nodes
        /\ Flagged(anomaly_attr) = {r.node_id : r \in result}
        /\ \A n \in DOMAIN nodes \ {r.node_id : r \in result} :
              anomaly_attr[n] = NotAnomalous
        /\ \A r \in result :
              /\ anomaly_attr[r.node_id].anomaly_score = r.anomaly_score
              /\ anomaly_attr[r.node_id].anomaly_type = r.anomaly_type

\* a pass that flags some node and unflags a node the pass before it flagged
C8_Witness ==
    /\ lastOp.op = "get_anomalies"
    /\ ~lastOp.raised
    /\ result # {}
    /\ \E n \in prevFlagged :
          /\ n \notin {r.node_id : r \in result}
          /\ anomaly_attr[n] = NotAnomalous

\* C9: get_anomalies returns no anomaly of a node type that has fewer than
\* 10 nodes in the graph, whatever the method and threshold; with the node
\* type unspecified each of the two populations is held to that on its own.
C9_SmallPopulationSkipped ==
    lastOp.op = "get_anomalies" =>
        \A r \in result : Cardinality(NodesOfType(nodes, r.node_type)) >= MinPopulation

\* node type unspecified, ten or more blocks, fewer than ten transactions
\* with values that differ, and anomalies among the blocks
C9_Witness ==
    /\ lastOp.op = "get_anomalies"
    /\ lastOp.node_type = ""
    /\ result # {}
    /\ Cardinality(NodesOfType(nodes, "block")) >= MinPopulation
    /\ Cardinality(NodesOfType(nodes, "transaction")) < MinPopulation
    /\ Cardinality({q[2] : q \in Population(nodes, edges, "transaction")}) > 1

\* C10: every anomaly record get_anomalies returns has a score in [0, 100],
\* for each method and every threshold, zero and negative ones included.
C10_ScoreInRange ==
    lastOp.op = "get_anomalies" =>
        \A r \in result :
            /\ r.anomaly_score.sgn >= 0
            /\ RLeq(r.anomaly_score.sq, RInt(10000))

----------------------------------------------------------------------------
(* Two request threads in get_anomalies (specification SpecQueries).       *)
(* Flask serves requests on threads of their own and the engine holds no   *)
(* lock, so the statements of two get_anomalies calls interleave.  A step  *)
(* is detect_anomalies, the first loop of store_anomaly_attributes or its  *)
(* second loop followed by the return; the interleavings of whole loops    *)
(* are among those the threads can produce.                                *)

QueryThreads == {1, 2}

ThreadQueries == {"zscore", "threshold"} \X {<<0, 1>>, <<2, 1>>}

\* get_anomalies, line 816
AnomalyQueryDetect(i) ==
    /\ qpc[i] = "idle"
    /\ \E node_type \in {"block", "transaction"}, q \in ThreadQueries :
          LET d == detect_anomalies(nodes, edges, node_type, q[1], q[2]) IN
          /\ qlocal' = [qlocal EXCEPT ![i] = d.anomalies]
          /\ qpc' = [qpc EXCEPT ![i] = IF d.raised THEN "idle" ELSE "clear_attrs"]
          /\ lastOp' = Op("detect_anomalies", "anomaly", node_type, NoId, q[1], q[2],
                          d.raised)
    /\ UNCHANGED <<graphVars, engineVars, attrVars, result, fetchVars, prevFlagged,
                   ingest, lastCompleted, budget>>

\* store_anomaly_attributes, lines 791-794
AnomalyQueryClear(i) ==
    /\ qpc[i] = "clear_attrs"
    /\ anomaly_attr' = ClearAnomalyAttributes(anomaly_attr, nodes)
    /\ qpc' = [qpc EXCEPT ![i] = "set_attrs"]
    /\ lastOp' = Mutation("store_anomaly_attributes")
    /\ UNCHANGED <<graphVars, engineVars, degree_attr, activity_attr, cluster_attr, result,
                   fetchVars,
                   prevFlagged, ingest, qlocal, lastCompleted, budget>>

\* store_anomaly_attributes, lines 797-802, and get_anomalies, line 818
AnomalyQuerySet(i) ==
    /\ qpc[i] = "set_attrs"
    /\ anomaly_attr' = SetAnomalyAttributes(anomaly_attr, nodes, qlocal[i])
    /\ result' = qlocal[i]
    /\ lastCompleted' = {a.node_id : a \in qlocal[i]}
    /\ qpc' = [qpc EXCEPT ![i] = "idle"]
    /\ qlocal' = [qlocal EXCEPT ![i] = {}]
    /\ lastOp' = Op("get_anomalies", "anomaly", "", NoId, "", NoThreshold, FALSE)
    /\ UNCHANGED <<graphVars, engineVars, degree_attr, activity_attr, cluster_attr, fetchVars,
                   prevFlagged, ingest, budget>>

NextQueries ==
    \/ FetchAndUpdate
    \/ \E i \in QueryThreads : AnomalyQueryDetect(i)
    \/ \E i \in QueryThreads : AnomalyQueryClear(i)
    \/ \E i \in QueryThreads : AnomalyQuerySet(i)

SpecQueries == InitAnom /\ [][NextQueries]_vars

\* C5: with two get_anomalies calls running concurrently the write-back of
\* the anomaly attributes is all-or-nothing: once both calls have returned,
\* the flagged nodes are exactly those of the pass that returned last.
C5_AttributesOfLastPass ==
    (qpc[1] = "idle" /\ qpc[2] = "idle" /\ lastOp.op = "get_anomalies") =>
        Flagged(anomaly_attr) = lastCompleted

----------------------------------------------------------------------------
(* Activity normalization *)

\* the raw activity values of the nodes that share n's type
GroupRawValues(n) ==
    {calculate_type_specific_degree(nodes, edges, m) :
        m \in {x \in DOMAIN nodes : nodes[x].type = nodes[n].type}}

\* C11: after get_activity_metrics every node's normalized value lies in
\* [0, 100]; in a type group whose raw values are all equal every member has
\* exactly 50; in any other group the members with the group's least raw
\* value have 0 and those with its greatest have 100, whatever the values of
\* the other groups are.
C11_NormalizedPerGroup ==
    lastOp.op = "get_activity_metrics" =>
        /\ DOMAIN activity_attr = DOMAIN nodes
        /\ \A r \in result :
              r.normalized_value = activity_attr[r.node_id].activity_score
        /\ \A n \in DOMAIN nodes :
              LET score == activity_attr[n].activity_score
                  raw == calculate_type_specific_degree(nodes, edges, n)
                  group == GroupRawValues(n)
              IN /\ RLeq(RInt(0), score) /\ RLeq(score, RInt(100))
                 /\ Cardinality(group) = 1 => score = RInt(50)
                 /\ (Cardinality(group) > 1 /\ raw = SetMin(group)) => score = RInt(0)
                 /\ (Cardinality(group) > 1 /\ raw = SetMax(group)) => score = RInt(100)

\* a group of several members with equal values next to a group whose
\* values differ, one of them strictly between the least and the greatest
C11_Witness ==
    /\ lastOp.op = "get_activity_metrics"
    /\ \E n, m \in DOMAIN nodes :
          /\ n # m /\ nodes[n].type = nodes[m].type
          /\ Cardinality(GroupRawValues(n)) = 1
          /\ activity_attr[n].activity_score = RInt(50)
    /\ \E n \in DOMAIN nodes :
          /\ RLess(RInt(0), activity_attr[n].activity_score)
          /\ RLess(activity_attr[n].activity_score, RInt(50))

----------------------------------------------------------------------------
(* Recalculation (specification SpecRecalc): the queries of SpecAnom, the  *)
(* degree query and the recalculate endpoint over a fetched chain.         *)

NextRecalc ==
    \/ FetchAndUpdate
    \/ GetDegreeMetrics
    \/ GetActivityMetrics
    \/ GetAnomalies
    \/ RecalculateAnalytics

InitRecalc ==
    /\ InitCommon
    /\ MAX_NODES = DefaultMaxNodes
    /\ chain = BusyChain

SpecRecalc == InitRecalc /\ [][NextRecalc]_vars

Queries == {"get_degree_metrics", "get_activity_metrics", "get_anomalies"}

\* what the query q returns on an engine constructed over the graph N, E
\* whose nodes carry the degree attributes attrs
FreshResult(q, N, E, attrs) ==
    IF q.op = "get_degree_metrics"
    THEN LET c == calculate_node_degrees([f \in Families |-> TRUE], EmptyFn, N, E) IN
         DegreeResults(store_degree_metrics(c.metrics, attrs, N, E), N, E,
                       q.node_type, q.node_id)
    ELSE IF q.op = "get_activity_metrics"
    THEN ActivityResults(normalize_activity_values(calculate_activity_metrics(N, E)),
                         q.node_type)
    ELSE detect_anomalies(N, E, q.node_type, q.method, q.threshold).anomalies

SameQuery(q, r) ==
    /\ q.family = r.family /\ q.node_type = r.node_type /\ q.node_id = r.node_id
    /\ q.method = r.method /\ q.threshold = r.threshold

----------------------------------------------------------------------------
(* Failed computation *)

----------------------------------------------------------------------------
(* Recent window and flow paths *)

\* the order of the (height, node_id) tuples block_nodes.sort compares
BlockPairLeq(x, y) == x[1] < y[1] \/ (x[1] = y[1] /\ x[2][2] <= y[2][2])

\* block_nodes.sort(reverse=True) followed by block_nodes[:time_window_blocks]
RECURSIVE HighestBlocks(_, _)
HighestBlocks(block_nodes, k) ==
    IF k <= 0 \/ block_nodes = {} THEN {}
    ELSE LET top == CHOOSE x \in block_nodes : \A y \in block_nodes : BlockPairLeq(y, x)
         IN {top[2]} \cup HighestBlocks(block_nodes \ {top}, k - 1)

RECURSIVE LowestBlocks(_, _)
LowestBlocks(block_nodes, k) ==
    IF k <= 0 \/ block_nodes = {} THEN {}
    ELSE LET low == CHOOSE x \in block_nodes : \A y \in block_nodes : BlockPairLeq(x, y)
         IN {low[2]} \cup LowestBlocks(block_nodes \ {low}, k - 1)

GetRecentBlocksAscending(N, E, time_window_blocks) ==
    LET block_nodes == {<<N[n].height, n>> : n \in NodesOfType(N, "block")}
        recent_block_ids == LowestBlocks(block_nodes, time_window_blocks)
        txs == {e[2] : e \in {e \in DOMAIN E : e[1] \in recent_block_ids
                                               /\ E[e].type = "block_tx"}}
    IN recent_block_ids \cup txs
         \cup {e[1] : e \in {e \in DOMAIN E : e[2] \in txs /\ E[e].type = "tx_input"}}
         \cup {e[2] : e \in {e \in DOMAIN E : e[1] \in txs /\ E[e].type = "tx_output"}}

\* AnalyticsEngine.get_recent_blocks
get_recent_blocks(N, E, time_window_blocks) ==
    LET block_nodes == {<<N[n].height, n>> : n \in NodesOfType(N, "block")}
        recent_block_ids == HighestBlocks(block_nodes, time_window_blocks)
        txs == {e[2] : e \in {e \in DOMAIN E : e[1] \in recent_block_ids
                                               /\ E[e].type = "block_tx"}}
    IN recent_block_ids \cup txs
         \cup {e[1] : e \in {e \in DOMAIN E : e[2] \in txs /\ E[e].type = "tx_input"}}
         \cup {e[2] : e \in {e \in DOMAIN E : e[1] \in txs /\ E[e].type = "tx_output"}}

\* the path dictionary both tracers build: path_edges carries the values
\* 0 and the weight of the second edge, total_value their sum, path_length
\* len(path_nodes) - 1
FlowPath(from, mid, to, weight) ==
    [path_nodes |-> <<from, mid, to>>,
     edge_values |-> <<0, weight>>,
     total_value |-> 0 + weight,
     path_length |-> Len(<<from, mid, to>>) - 1]

\* AnalyticsEngine.find_flow_paths_from_address.  The loop over
\* graph.out_edges(start_address, data=True) unpacks each (source, target,
\* data) triple as (tx_id, _, edge_data): tx_id is bound to the source.
\* The list of paths is kept as a set.
find_flow_paths_from_address(N, E, start_address, max_blocks) ==
    IF start_address \notin DOMAIN N THEN {}
    ELSE
      LET recent_nodes == get_recent_blocks(N, E, max_blocks) IN
      IF start_address \notin recent_nodes THEN {}
      ELSE
        LET input_txs == {e[1] : e \in {e \in DOMAIN E : /\ e[1] = start_address
                                                           /\ E[e].type = "tx_input"
                                                           /\ e[1] \in recent_nodes}}
        IN UNION {{FlowPath(start_address, tx_id, e[2], E[e].weight) :
                      e \in {e \in DOMAIN E : /\ e[1] = tx_id
                                              /\ E[e].type = "tx_output"
                                              /\ e[2] \in recent_nodes}} :
                  tx_id \in input_txs}

\* AnalyticsEngine.find_flow_paths_from_transaction
find_flow_paths_from_transaction(N, E, transaction_id, max_blocks) ==
    IF transaction_id \notin DOMAIN N THEN {}
    ELSE
      LET recent_nodes == get_recent_blocks(N, E, max_blocks) IN
      IF transaction_id \notin recent_nodes THEN {}
      ELSE
        LET input_addresses == {e[1] : e \in {e \in DOMAIN E : /\ e[2] = transaction_id
                                                                 /\ E[e].type = "tx_input"
                                                                 /\ e[1] \in recent_nodes}}
            output_edges == {e \in DOMAIN E : /\ e[1] = transaction_id
                                              /\ E[e].type = "tx_output"
                                              /\ e[2] \in recent_nodes}
        IN {FlowPath(p[1], transaction_id, p[2][2], E[p[2]].weight) :
               p \in input_addresses \X output_edges}

LimitPathDepthStrict(paths, max_depth) == {p \in paths : p.path_length < max_depth}

\* AnalyticsEngine.limit_path_depth
limit_path_depth(paths, max_depth) == {p \in paths : p.path_length <= max_depth}

GetFlowPathsAddressFirst(N, E, start_address, transaction_id, max_depth, max_blocks) ==
    LET paths ==
          IF start_address # NoId
          THEN find_flow_paths_from_address(N, E, start_address, max_blocks)
          ELSE IF transaction_id # NoId
          THEN find_flow_paths_from_transaction(N, E, transaction_id, max_blocks)
          ELSE LET recent_nodes == get_recent_blocks(N, E, max_blocks)
                   address_nodes == {nid \in recent_nodes : N[nid].type = "address"}
               IN UNION {find_flow_paths_from_address(N, E, addr_id, max_blocks) :
                            addr_id \in address_nodes}
    IN limit_path_depth(paths, max_depth)

\* AnalyticsEngine.get_flow_paths; NoId stands for None
get_flow_paths(N, E, start_address, transaction_id, max_depth, max_blocks) ==
    LET paths ==
          IF transaction_id # NoId
          THEN find_flow_paths_from_transaction(N, E, transaction_id, max_blocks)
          ELSE IF start_address # NoId
          THEN find_flow_paths_from_address(N, E, start_address, max_blocks)
          ELSE LET recent_nodes == get_recent_blocks(N, E, max_blocks)
                   address_nodes == {nid \in recent_nodes : N[nid].type = "address"}
               IN UNION {find_flow_paths_from_address(N, E, addr_id, max_blocks) :
                            addr_id \in address_nodes}
    IN limit_path_depth(paths, max_depth)

\* the max_depth / max_blocks values the flow endpoint accepts, and the
\* value it substitutes for any other
MinFlowArg == 1
MaxFlowArg == 10
DefaultFlowArg == 5
FlowArg(x) == IF x < MinFlowArg \/ x > MaxFlowArg THEN DefaultFlowArg ELSE x

FlowOp(start_address, transaction_id, max_depth, max_blocks) ==
    [op |-> "get_flow_paths", family |-> "flow", raised |-> FALSE,
     start_address |-> start_address, transaction_id |-> transaction_id,
     max_depth |-> max_depth, max_blocks |-> max_blocks]

\* the addresses the transactions of TxShapes name
TxAddresses ==
    UNION {{TxShapes[k].inputs[i] : i \in DOMAIN TxShapes[k].inputs}
             \cup {TxShapes[k].outputs[i].address : i \in DOMAIN TxShapes[k].outputs} :
           k \in DOMAIN TxShapes} \ {0}

\* the requests of the flow endpoint: depth 0 stands for an out-of-range
\* number
FlowStarts == {NoId} \cup {AddrId(a) : a \in TxAddresses}
FlowTransactions == {NoId} \cup {TxId(t) : t \in 1..MaxTxs}
FlowDepths == {0, 1}
FlowBlocks == 1..MaxBlocks

\* web_server.get_analytics_flow: a start that is given and is no node of the
\* graph is answered 404 without a call to the engine
GetFlowPaths ==
    \E start_address \in FlowStarts, transaction_id \in FlowTransactions,
       depth \in FlowDepths, blocks \in FlowBlocks :
      LET max_depth == FlowArg(depth)
          max_blocks == FlowArg(blocks)
      IN
      /\ start_address = NoId \/ start_address \in DOMAIN nodes
      /\ transaction_id = NoId \/ transaction_id \in DOMAIN nodes
      /\ result' = get_flow_paths(nodes, edges, start_address, transaction_id,
                                  max_depth, max_blocks)
      /\ lastOp' = FlowOp(start_address, transaction_id, max_depth, max_blocks)
      /\ UNCHANGED <<graphVars, engineVars, attrVars, fetchVars, prevFlagged, threadVars>>

NextFlow ==
    \/ AddBlock
    \/ AddTransaction
    \/ AddAddress
    \/ GetFlowPaths

SpecFlow == Init /\ [][NextFlow]_vars

IsFlowQuery == lastOp.op = "get_flow_paths"

\* the query the last flow request made, with another max_depth
FlowPathsAtDepth(d) ==
    get_flow_paths(nodes, edges, lastOp.start_address, lastOp.transaction_id,
                   d, lastOp.max_blocks)

\* C14 as stated: a flow query given both starts, or neither, returns the
\* paths from every address of the recent window.
C14_BothOrNeitherFallsBack ==
    (IsFlowQuery /\ ((lastOp.start_address = NoId) = (lastOp.transaction_id = NoId))) =>
        result = get_flow_paths(nodes, edges, NoId, NoId, lastOp.max_depth,
                                lastOp.max_blocks)

\* C14 amended: a flow query given a transaction, with or without a start
\* address, returns what the query with the transaction alone returns, paths
\* through that transaction only; given only a start address it returns paths
\* from that address only; given neither it returns the union of the
\* single-address queries over the addresses of the recent window.
C14_TransactionTakesPrecedence ==
    IsFlowQuery =>
      /\ lastOp.transaction_id # NoId =>
           /\ result = get_flow_paths(nodes, edges, NoId, lastOp.transaction_id,
                                      lastOp.max_depth, lastOp.max_blocks)
           /\ \A p \in result : p.path_nodes[2] = lastOp.transaction_id
      /\ (lastOp.transaction_id = NoId /\ lastOp.start_address # NoId) =>
           \A p \in result : p.path_nodes[1] = lastOp.start_address
      /\ (lastOp.transaction_id = NoId /\ lastOp.start_address = NoId) =>
           result = UNION {get_flow_paths(nodes, edges, a, NoId, lastOp.max_depth,
                                          lastOp.max_blocks) :
                             a \in {n \in get_recent_blocks(nodes, edges, lastOp.max_blocks) :
                                       nodes[n].type = "address"}}

\* a query given both starts that returned paths through the transaction
C14_Witness ==
    /\ IsFlowQuery
    /\ lastOp.start_address # NoId
    /\ lastOp.transaction_id # NoId
    /\ result # {}

\* C15 as stated: every flow path has path_length 2 and the query returns the
\* same set of paths for every max_depth from 1 to 10.
C15_DepthNeverFilters ==
    IsFlowQuery =>
      /\ \A p \in result : p.path_length = 2
      /\ \A d \in MinFlowArg..MaxFlowArg : FlowPathsAtDepth(d) = result

\* C15 amended: every flow path has path_length 2; the query returns the
\* same set of paths for every max_depth from 2 to 10 and no path for
\* max_depth 1.
C15_DepthFiltersOnlyAtOne ==
    IsFlowQuery =>
      /\ \A p \in result : p.path_length = 2
      /\ lastOp.max_depth >= 2 =>
           \A d \in 2..MaxFlowArg : FlowPathsAtDepth(d) = result
      /\ lastOp.max_depth = 1 => result = {}

\* a query with max_depth 1 that returned nothing where max_depth 2 returns paths
C15_Witness ==
    /\ IsFlowQuery
    /\ lastOp.max_depth = 1
    /\ result = {}
    /\ FlowPathsAtDepth(2) # {}

\* C16 as stated: a flow query from an address alone returns one path
\* [address, transaction, output address] for each transaction of the recent
\* window the address is a tx_input of and each tx_output address of that
\* transaction in the window, with edge values [0, weight] and total_value
\* the weight; an address outside the window yields no path.
C16_AddressTracing ==
    (/\ IsFlowQuery
     /\ lastOp.start_address # NoId
     /\ lastOp.transaction_id = NoId
     /\ lastOp.max_depth >= 2) =>
        LET a == lastOp.start_address
            recent == get_recent_blocks(nodes, edges, lastOp.max_blocks)
        IN result =
             IF a \notin recent THEN {}
             ELSE {[path_nodes |-> <<a, t, o>>, edge_values |-> <<0, edges[<<t, o>>].weight>>,
                    total_value |-> edges[<<t, o>>].weight, path_length |-> 2] :
                     <<t, o>> \in {e \in DOMAIN edges :
                                     /\ edges[e].type = "tx_output"
                                     /\ e[1] \in recent /\ e[2] \in recent
                                     /\ <<a, e[1]>> \in DOMAIN edges
                                     /\ edges[<<a, e[1]>>].type = "tx_input"}}

\* the blocks of the n_blocks greatest (height, id)
TopBlocks(n_blocks) ==
    LET B == NodesOfType(nodes, "block") IN
    {x \in B : Cardinality({y \in B : /\ y # x
                                      /\ BlockPairLeq(<<nodes[x].height, x>>,
                                                      <<nodes[y].height, y>>)}) < n_blocks}

----------------------------------------------------------------------------
(* Clustering *)

\* An undirected nx.Graph: V its nodes, L its links, each the set of its one
\* (self-loop) or two endpoints.
Subgraph(V, L) == [V |-> V, L |-> L]

\* the links the double loop over a list draws: one between every two
\* different members, and a self-loop on a member the list holds twice
ListLinks(once, twice) ==
    {{a, b} : <<a, b>> \in {p \in (once \cup twice) \X (once \cup twice) : p[1] # p[2]}}
      \cup {{a} : a \in twice}

\* AnalyticsEngine.create_address_subgraph
create_address_subgraph(N, E, recent_nodes) ==
    LET address_nodes == {nid \in recent_nodes : N[nid].type = "address"}
        transactions == {nid \in recent_nodes : N[nid].type = "transaction"}
        input_addresses(tx_id) ==
            {e[1] : e \in {e \in DOMAIN E : /\ e[2] = tx_id /\ E[e].type = "tx_input"
                                            /\ e[1] \in address_nodes}}
        output_addresses(tx_id) ==
            {e[2] : e \in {e \in DOMAIN E : /\ e[1] = tx_id /\ E[e].type = "tx_output"
                                            /\ e[2] \in address_nodes}}
    IN Subgraph(address_nodes,
                UNION {ListLinks(input_addresses(tx_id) \cup output_addresses(tx_id),
                                 input_addresses(tx_id) \cap output_addresses(tx_id)) :
                         tx_id \in transactions})

\* AnalyticsEngine.create_transaction_subgraph
create_transaction_subgraph(N, E, recent_nodes) ==
    LET transaction_nodes == {nid \in recent_nodes : N[nid].type = "transaction"}
        as_input(addr_id) ==
            {e[2] : e \in {e \in DOMAIN E : /\ e[1] = addr_id /\ E[e].type = "tx_input"
                                            /\ e[2] \in transaction_nodes}}
        as_output(addr_id) ==
            {e[1] : e \in {e \in DOMAIN E : /\ e[2] = addr_id /\ E[e].type = "tx_output"
                                            /\ e[1] \in transaction_nodes}}
    IN Subgraph(transaction_nodes,
                UNION {ListLinks(as_input(addr_id) \cup as_output(addr_id),
                                 as_input(addr_id) \cap as_output(addr_id)) :
                         addr_id \in DOMAIN N})

\* the nodes joined to one of `seen` by a chain of links
RECURSIVE Reach(_, _)
Reach(seen, L) ==
    LET more == seen \cup UNION {l \in L : l \cap seen # {}} IN
    IF more = seen THEN seen ELSE Reach(more, L)

Components(sub) == {Reach({v}, sub.L) : v \in sub.V}

\* the lists that hold every member of P once, larger members first
SizeOrderedLists(P) ==
    LET k == Cardinality(P) IN
    {f \in [1..k -> P] :
        /\ \A i, j \in 1..k : i < j => f[i] # f[j] /\ Cardinality(f[i]) >= Cardinality(f[j])}

\* nx.community.greedy_modularity_communities(subgraph), a function of the
\* networkx library: the outcomes the call can have.  It returns the
\* communities by decreasing size, communities of one size in an order the
\* library does not document.  The communities are the connected components;
\* this is what the greedy merge yields on the projections of this model,
\* whose components are cliques.  On a graph
\* without links the library, depending on its version, divides by the
\* number of links (an exception) or returns every node as a community.
greedy_modularity_communities(sub) ==
    [raised : {FALSE}, communities : SizeOrderedLists(Components(sub))]
      \cup (IF sub.L = {} THEN {[raised |-> TRUE, communities |-> <<>>]} ELSE {})

\* AnalyticsEngine.cluster_addresses / cluster_transactions after the
\* subgraph is built: the cluster maps the call can return, cluster_id i kept
\* at index i + 1
ClusterMaps(sub) ==
    IF Cardinality(sub.V) < 2 THEN {<<>>}
    ELSE {IF c.raised THEN <<>> ELSE c.communities : c \in greedy_modularity_communities(sub)}

\* AnalyticsEngine.cluster_addresses
cluster_addresses(N, E, time_window_blocks) ==
    ClusterMaps(create_address_subgraph(N, E, get_recent_blocks(N, E, time_window_blocks)))

\* AnalyticsEngine.cluster_transactions
cluster_transactions(N, E, time_window_blocks) ==
    ClusterMaps(create_transaction_subgraph(N, E,
                                            get_recent_blocks(N, E, time_window_blocks)))

\* store_cluster_attributes, lines 1028-1031
StoreColors ==
    <<"#FF5733", "#33FF57", "#3357FF", "#FF33F5", "#F5FF33",
      "#33FFF5", "#FF8C33", "#8C33FF", "#33FF8C", "#FF338C">>

\* get_clusters, lines 1064-1067
ReportColors ==
    <<"#FF5733", "#33FF57", "#3357FF", "#33FFF5", "#FF33F5",
      "#F5FF33", "#FF8C33", "#8C33FF", "#33FF8C", "#FF338C">>

\* colors[cluster_id % len(colors)]
ColorOf(colors, cluster_id) == colors[(cluster_id % Len(colors)) + 1]

StoreClusterAttributesKeeping(clusters, cluster_type, attrs, N) ==
    LET members == UNION {clusters[i] : i \in DOMAIN clusters} \cap DOMAIN N
        IndexOf(n) == CHOOSE i \in DOMAIN clusters : n \in clusters[i]
    IN [n \in members |-> [cluster_id |-> IndexOf(n) - 1, cluster_type |-> cluster_type,
                           cluster_color |-> ColorOf(StoreColors, IndexOf(n) - 1)]]
         @@ attrs

\* AnalyticsEngine.store_cluster_attributes; "None" stands for None
store_cluster_attributes(clusters, cluster_type, attrs, N) ==
    LET cleared == [n \in DOMAIN attrs |->
                      IF attrs[n].cluster_type = cluster_type
                      THEN [cluster_id |-> -1, cluster_type |-> "None",
                            cluster_color |-> "None"]
                      ELSE attrs[n]]
        members == UNION {clusters[i] : i \in DOMAIN clusters} \cap DOMAIN N
        IndexOf(n) == CHOOSE i \in DOMAIN clusters : n \in clusters[i]
    IN [n \in members |-> [cluster_id |-> IndexOf(n) - 1, cluster_type |-> cluster_type,
                           cluster_color |-> ColorOf(StoreColors, IndexOf(n) - 1)]]
         @@ cleared

\* get_clusters, lines 1062-1078: the cluster_list of the response
ClusterList(clusters) ==
    {[cluster_id |-> i - 1, node_ids |-> clusters[i], size |-> Cardinality(clusters[i]),
      color_hex |-> ColorOf(ReportColors, i - 1)] : i \in DOMAIN clusters}

ClusterOp(cluster_type, time_window_blocks) ==
    [op |-> "get_clusters", family |-> "cluster", raised |-> FALSE,
     cluster_type |-> cluster_type, time_window_blocks |-> time_window_blocks]

\* the time_window_blocks values the cluster endpoint accepts
MinClusterWindow == 20
MaxClusterWindow == 50

GetClustersProjectingInPlace ==
    \E cluster_type \in {"address", "transaction"},
       time_window_blocks \in {MinClusterWindow, MaxClusterWindow} :
      LET recent_nodes == get_recent_blocks(nodes, edges, time_window_blocks)
          sub == IF cluster_type = "address"
                 THEN create_address_subgraph(nodes, edges, recent_nodes)
                 ELSE create_transaction_subgraph(nodes, edges, recent_nodes)
          links == {p \in sub.V \X sub.V : {p[1], p[2]} \in sub.L}
      IN
      \E clusters \in ClusterMaps(sub) :
        /\ edges' = [p \in links |-> [type |-> "none", weight |-> 0]] @@ edges
        /\ cluster_attr' = store_cluster_attributes(clusters, cluster_type, cluster_attr,
                                                    nodes)
        /\ result' = ClusterList(clusters)
        /\ lastOp' = ClusterOp(cluster_type, time_window_blocks)
        /\ UNCHANGED <<MAX_NODES, nodes, addr_data, block_heights, update_queue,
                       engineVars, degree_attr,
                       activity_attr, anomaly_attr, fetchVars, prevFlagged, threadVars>>

\* AnalyticsEngine.get_clusters(cluster_type, time_window_blocks) as the
\* cluster endpoint calls it
GetClusters ==
    \E cluster_type \in {"address", "transaction"},
       time_window_blocks \in {MinClusterWindow, MaxClusterWindow} :
      \E clusters \in IF cluster_type = "address"
                      THEN cluster_addresses(nodes, edges, time_window_blocks)
                      ELSE cluster_transactions(nodes, edges, time_window_blocks) :
        /\ cluster_attr' = store_cluster_attributes(clusters, cluster_type, cluster_attr,
                                                    nodes)
        /\ result' = ClusterList(clusters)
        /\ lastOp' = ClusterOp(cluster_type, time_window_blocks)
        /\ UNCHANGED <<graphVars, engineVars, degree_attr, activity_attr, anomaly_attr,
                       fetchVars, prevFlagged, threadVars>>

\* block h holds h transactions, each from the first to the h others of
\* h + 1 addresses no other block names
ClusterChain ==
    [h \in 1..ClusterLen |->
        [i \in 1..h |->
            [tx_hash |-> 100 * h + i, inputs |-> <<100 * h>>,
             outputs |-> [k \in 1..h |-> [address |-> 100 * h + k, amount |-> 1]]]]]

\* block h holds one transaction, from address 2h - 1 to address 2h
PairChain ==
    [h \in 1..PairLen |->
        <<[tx_hash |-> 100 * h + 1, inputs |-> <<2 * h - 1>>,
           outputs |-> <<[address |-> 2 * h, amount |-> 1]>>]>>]

InitCluster ==
    /\ InitCommon
    /\ MAX_NODES = RampMaxNodes
    /\ chain \in {ClusterChain, PairChain}

NextCluster ==
    \/ FetchAndUpdate
    \/ GetClusters

SpecCluster == InitCluster /\ [][NextCluster]_vars

\* C18: for every cluster a cluster query returns, the colour reported for
\* the cluster is the cluster_color attribute written onto each of its
\* member nodes.
C18_OnePalette ==
    lastOp.op = "get_clusters" =>
        \A c \in result : \A n \in c.node_ids :
            n \in DOMAIN cluster_attr => cluster_attr[n].cluster_color = c.color_hex

----------------------------------------------------------------------------
(* Queries and the graph *)

\* the first MaxBlocks blocks of the cluster chain
ShortChain == SubSeq(ClusterChain, 1, Min(MaxBlocks, ClusterLen))

InitFrame ==
    /\ InitCommon
    /\ MAX_NODES = DefaultMaxNodes
    /\ chain = ShortChain

NextFrame ==
    \/ FetchAndUpdate
    \/ GetDegreeMetrics
    \/ GetActivityMetrics
    \/ GetAnomalies
    \/ GetClusters
    \/ GetFlowPaths

SpecFrame == InitFrame /\ [][NextFrame]_vars

EngineQueries ==
    {"get_degree_metrics", "get_activity_metrics", "get_anomalies", "get_clusters",
     "get_flow_paths"}

\* C19: no engine query (degrees, activity, anomalies with their statistics,
\* clusters, flow) creates or removes a node or an edge or changes an edge's
\* type or weight, and every attribute it writes is on a node of the graph.
C19_QueriesKeepGraph ==
    [][lastOp'.op \in EngineQueries =>
          /\ nodes' = nodes
          /\ edges' = edges
          /\ DOMAIN degree_attr' \subseteq DOMAIN nodes
          /\ DOMAIN activity_attr' \subseteq DOMAIN nodes
          /\ DOMAIN anomaly_attr' \subseteq DOMAIN nodes
          /\ DOMAIN cluster_attr' \subseteq DOMAIN nodes]_vars

\* a cluster query that wrote cluster attributes on a graph with edges whose
\* nodes already carry degree and activity attributes
C19_Witness ==
    /\ lastOp.op = "get_clusters"
    /\ DOMAIN cluster_attr # {}
    /\ DOMAIN degree_attr # {}
    /\ DOMAIN activity_attr # {}
    /\ DOMAIN edges # {}

----------------------------------------------------------------------------
(* Transactions and their edges *)

\* C20: every transaction node has at least one incoming tx_input edge and
\* at least one outgoing tx_output edge.
C20_TransactionsConnected ==
    \A t \in NodesOfType(nodes, "transaction") :
        /\ \E e \in DOMAIN edges : e[2] = t /\ edges[e].type = "tx_input"
        /\ \E e \in DOMAIN edges : e[1] = t /\ edges[e].type = "tx_output"

----------------------------------------------------------------------------
(* Address aggregation *)

\* the Address observations add_address is called with
ObservedAddresses ==
    {[address |-> a, total_received |-> r, total_sent |-> t, transaction_count |-> c] :
        a \in 1..MaxAddrs, r \in {0, MaxObserved}, t \in {0, MaxObserved}, c \in {0, 1}}

\* GraphBuilder.add_address called with an observation; the ingestion budget
\* bounds the number of calls
AddObservedAddress ==
    \E address \in ObservedAddresses :
        LET G == add_address(BuilderState, address, MAX_NODES) IN
        /\ budget.ingest > 0
        /\ budget' = [budget EXCEPT !.ingest = @ - 1]
        /\ nodes' = G.nodes
        /\ edges' = G.edges
        /\ addr_data' = G.addr_data
        /\ block_heights' = G.block_heights
        /\ update_queue' = Queue(update_queue, G.log)
        /\ dirty' = Deliver(dirty, G.log)
        /\ lastOp' = [op |-> "add_address", family |-> "", raised |-> FALSE,
                      address |-> address]
        /\ result' = {}
        /\ UNCHANGED <<MAX_NODES, degree_cache, attrVars, fetchVars, prevFlagged, ingest,
                       qpc, qlocal, lastCompleted>>

NextAddr ==
    \/ AddTransaction
    \/ AddObservedAddress

SpecAddr == Init /\ [][NextAddr]_vars

\* the totals stored for a node; a node without data counts as zeros
StoredTotals(data, id) == IF id \in DOMAIN data THEN data[id] ELSE NoData

\* C21: add_address for an address already in the graph sets each stored
\* total to the stored value plus the observed one and leaves every other
\* address alone, and no stored total decreases in any step.
C21_AggregationAdditive ==
    [][/\ \A id \in DOMAIN addr_data :
             /\ id \in DOMAIN addr_data'
             /\ addr_data'[id].total_received >= addr_data[id].total_received
             /\ addr_data'[id].total_sent >= addr_data[id].total_sent
             /\ addr_data'[id].transaction_count >= addr_data[id].transaction_count
       /\ lastOp'.op = "add_address" =>
            LET obs == lastOp'.address
                addr_id == AddrId(obs.address)
                old == StoredTotals(addr_data, addr_id)
            IN /\ addr_id \in DOMAIN nodes =>
                    /\ addr_data'[addr_id].total_received
                         = old.total_received + obs.total_received
                    /\ addr_data'[addr_id].total_sent = old.total_sent + obs.total_sent
                    /\ addr_data'[addr_id].transaction_count
                         = old.transaction_count + obs.transaction_count
               /\ \A id \in DOMAIN addr_data' \ {addr_id} :
                    id \in DOMAIN addr_data /\ addr_data'[id] = addr_data[id]]_vars

\* a second observation of an address whose stored totals were not zero
C21_Witness ==
    /\ lastOp.op = "add_address"
    /\ AddrId(lastOp.address.address) \in DOMAIN addr_data
    /\ lastOp.address.total_received > 0
    /\ addr_data[AddrId(lastOp.address.address)].total_received
         > lastOp.address.total_received
    /\ addr_data[AddrId(lastOp.address.address)].transaction_count > 1

----------------------------------------------------------------------------
(* DataFetcher.fetch_and_update when an API call fails (specification      *)
(* SpecFetch).  get_latest_block is called inside its own try block;       *)
(* get_block_transactions is called after add_block and is covered by the  *)
(* handlers at the end of fetch_and_update only.                           *)

\* what the client raises: ApiError with status 429, with status 400, with
\* another status, or an exception that is not an ApiError
ApiFailures == {"429", "400", "api_error", "exception"}

\* the status fields a failed attempt leaves: lines 160-166 for
\* get_latest_block, lines 242-287 for get_block_transactions
FailureStatus(call, error) ==
    IF call = "get_latest_block"
    THEN [AttemptStatus EXCEPT !.api_status = "disconnected", !.error_state = "set"]
    ELSE IF error = "429"
    THEN [AttemptStatus EXCEPT !.consecutive_errors = @ + 1,
                               !.rate_limit_status = [limited |-> TRUE],
                               !.api_status = "rate_limited"]
    ELSE [AttemptStatus EXCEPT !.consecutive_errors = @ + 1,
                               !.api_status = "disconnected",
                               !.error_state = "set"]

FailedFetch(call, error) ==
    [op |-> "fetch_and_update", family |-> "", raised |-> FALSE, returned |-> FALSE,
     call |-> call, error |-> error]

\* fetch_and_update when get_latest_block fails: nothing but the status
\* fields changes
FetchLatestBlockFails == \E error \in ApiFailures :
    /\ SetStatus(FailureStatus("get_latest_block", error))
    /\ lastOp' = FailedFetch("get_latest_block", error)
    /\ result' = {}
    /\ UNCHANGED <<graphVars, engineVars, attrVars, chain, last_block_height,
                   prevFlagged, threadVars>>

\* fetch_and_update when get_block_transactions fails: the new block is in
\* the graph already, last_block_height is not advanced
FetchTransactionsFails == \E error \in ApiFailures :
    LET tip == last_block_height + 1
        block == [block_hash |-> tip, block_height |-> tip]
        G == add_block(BuilderState, block, MAX_NODES) IN
    /\ tip <= Len(chain)
    /\ nodes' = G.nodes
    /\ edges' = G.edges
    /\ addr_data' = G.addr_data
    /\ block_heights' = G.block_heights
    /\ update_queue' = Queue(update_queue, G.log)
    /\ dirty' = Deliver(dirty, G.log)
    /\ SetStatus(FailureStatus("get_block_transactions", error))
    /\ lastOp' = FailedFetch("get_block_transactions", error)
    /\ result' = {}
    /\ UNCHANGED <<MAX_NODES, degree_cache, attrVars, chain, last_block_height,
                   prevFlagged, threadVars>>

NextFetch ==
    \/ FetchAndUpdate
    \/ FetchLatestBlockFails
    \/ FetchTransactionsFails

SpecFetch == InitAnom /\ [][NextFetch]_vars

AttemptFailed == lastOp.op = "fetch_and_update" /\ "returned" \in DOMAIN lastOp

\* C22: whenever the API client raises ApiError 429 during fetch_and_update,
\* get_latest_block included, fetch_and_update returns False with api_status
\* 'rate_limited' and rate_limit_status.limited true
C22_RateLimitReported ==
    (AttemptFailed /\ lastOp.error = "429") =>
        /\ ~lastOp.returned
        /\ api_status = "rate_limited"
        /\ rate_limit_status.limited

\* C27: consecutive_errors counts the failed attempts in a row: a failed
\* fetch_and_update raises it by one, and only a successful attempt returns
\* it to 0 (so that the status endpoint's consecutive_errors > 5 can happen)
C27_CountsFailuresInARow ==
    [][lastOp'.op = "fetch_and_update" =>
          IF "returned" \in DOMAIN lastOp'
          THEN consecutive_errors' = consecutive_errors + 1
          ELSE consecutive_errors' = 0]_vars

----------------------------------------------------------------------------
(* AnalyticsEngine.get_clusters called on the engine itself, with any       *)
(* cluster_type and any window (specification SpecEngineClusters)           *)

\* 'block' stands for the cluster types get_clusters does not know
ClusterTypes == {"address", "transaction", "block"}

\* a window of one block, and the smallest one the endpoint accepts
EngineWindows == {1, MinClusterWindow}

\* AnalyticsEngine.get_clusters(cluster_type, time_window_blocks)
EngineGetClusters ==
    \E cluster_type \in ClusterTypes, time_window_blocks \in EngineWindows :
      \E clusters \in IF cluster_type = "address"
                      THEN cluster_addresses(nodes, edges, time_window_blocks)
                      ELSE IF cluster_type = "transaction"
                      THEN cluster_transactions(nodes, edges, time_window_blocks)
                      ELSE {<<>>} :
        /\ cluster_attr' = store_cluster_attributes(clusters, cluster_type, cluster_attr,
                                                    nodes)
        /\ result' = ClusterList(clusters)
        /\ lastOp' = ClusterOp(cluster_type, time_window_blocks)
        /\ UNCHANGED <<graphVars, engineVars, degree_attr, activity_attr, anomaly_attr,
                       fetchVars, prevFlagged, threadVars>>

NextEngineClusters ==
    \/ FetchAndUpdate
    \/ EngineGetClusters

\* two blocks of one transaction each; the transaction pays another address
\* and returns the change to the address it spends from
ChangeChain ==
    <<<<[tx_hash |-> 101, inputs |-> <<1>>,
         outputs |-> <<[address |-> 2, amount |-> 1], [address |-> 1, amount |-> 2]>>]>>,
      <<[tx_hash |-> 201, inputs |-> <<3>>,
         outputs |-> <<[address |-> 4, amount |-> 1], [address |-> 3, amount |-> 2]>>]>>>>

InitEngineClusters ==
    /\ InitCommon
    /\ MAX_NODES = RampMaxNodes
    /\ chain \in {ClusterChain, ChangeChain}

SpecEngineClusters == InitEngineClusters /\ [][NextEngineClusters]_vars

\* C23: get_clusters called with a cluster type other than 'address' or
\* 'transaction' reports an error to its caller instead of returning a
\* normal (empty) cluster result, and changes no node attribute.
C23_UnknownTypeRejected ==
    [][(lastOp'.op = "get_clusters" /\ lastOp'.cluster_type \notin {"address", "transaction"})
          => /\ lastOp'.raised
             /\ cluster_attr' = cluster_attr]_vars

ReturnedMembers == UNION {c.node_ids : c \in result}

\* C24: right after get_clusters(t, n) returns, the nodes whose cluster_type
\* attribute is t are exactly the members of the clusters it returned, each
\* with the cluster_id of its cluster; a node that carried the other cluster
\* type keeps its cluster attributes, and so does every node outside the
\* returned clusters that did not carry t.
C24_ClusterAttributesMatchResult ==
    [][lastOp'.op = "get_clusters" =>
          LET t == lastOp'.cluster_type IN
          /\ {n \in DOMAIN cluster_attr' : cluster_attr'[n].cluster_type = t}
                = ReturnedMembers'
          /\ \A c \in result' : \A n \in c.node_ids :
                cluster_attr'[n].cluster_id = c.cluster_id
          /\ \A n \in DOMAIN cluster_attr :
                (cluster_attr[n].cluster_type \notin {t, "None"}
                    \/ (cluster_attr[n].cluster_type # t /\ n \notin ReturnedMembers'))
                  => cluster_attr'[n] = cluster_attr[n]
          /\ DOMAIN cluster_attr' = DOMAIN cluster_attr \cup ReturnedMembers']_vars

\* an address query whose window has moved on: a node that was a member of
\* an address cluster is no longer one, while transaction nodes carry the
\* attributes of an earlier transaction query
C24_Witness ==
    /\ lastOp.op = "get_clusters"
    /\ lastOp.cluster_type = "address"
    /\ ReturnedMembers # {}
    /\ \E n \in DOMAIN cluster_attr : cluster_attr[n].cluster_type = "None"
    /\ \E n \in DOMAIN cluster_attr : cluster_attr[n].cluster_type = "transaction"

----------------------------------------------------------------------------
(* The node limit, node types and the order of events *)

NodeTypes == {"block", "transaction", "address"}

\* C25: after any sequence of add_block / add_transaction / add_address
\* calls the graph holds at most MAX_NODES nodes, and every node has a type
\* attribute equal to block, transaction or address.
C25_BoundedTypedNodes ==
    /\ Cardinality(DOMAIN nodes) <= MAX_NODES
    /\ \A n \in DOMAIN nodes : nodes[n].type \in NodeTypes

\* C26: in the stream of events the builder emits to its subscribers, every
\* edge_added event is delivered after a node_added event for each of the
\* edge's two endpoints.
C26_EdgeEventsAfterNodeEvents == update_queue.early_edges = {}

----------------------------------------------------------------------------
(* The projections built for clustering *)

\* C28: the projection graphs built for clustering hold no self-loop:
\* create_address_subgraph never links an address to itself and
\* create_transaction_subgraph never links a transaction to itself, also when
\* one address is both an input and an output of the same transaction.
C28_NoSelfLoops ==
    \A time_window_blocks \in EngineWindows :
        LET recent_nodes == get_recent_blocks(nodes, edges, time_window_blocks) IN
        \A l \in create_address_subgraph(nodes, edges, recent_nodes).L
                   \cup create_transaction_subgraph(nodes, edges, recent_nodes).L :
            Cardinality(l) = 2

----------------------------------------------------------------------------
(* Output amounts: a transaction's value and an address's receipts *)

\* sum(out.amount for out in transaction.outputs)
OutputAmounts(outputs) ==
    SumValues({<<i, outputs[i].amount>> : i \in DOMAIN outputs})

\* C29: for every transaction added by add_transaction, the sum of the
\* weights of its outgoing tx_output edges (the transaction's value in
\* statistics and anomaly detection) equals the sum of the amounts of all its
\* outputs, also when several outputs pay the same address.
C29_ValueIsSumOfOutputs ==
    \A transaction \in SmallTxs :
        LET tx_id == TxId(transaction.tx_hash) IN
        (tx_id \in DOMAIN nodes /\ nodes[tx_id].type = "transaction") =>
            OutputValue(edges, tx_id) = OutputAmounts(transaction.outputs)

\* the outputs of the transactions of the blocks ingested so far that pay
\* the address, as <<height, transaction, output>> -> amount
IngestedOutputs(address) ==
    {<<<<h, i, k>>, chain[h][i].outputs[k].amount>> :
        <<h, i, k>> \in {x \in UNION {UNION {{<<h, i, k>> : k \in DOMAIN chain[h][i].outputs} :
                                               i \in DOMAIN chain[h]} :
                                        h \in 1..last_block_height} :
                           chain[x[1]][x[2]].outputs[x[3]].address = address}}

\* C30: after fetch_and_update has ingested blocks, each address node's
\* stored total_received equals the sum of the amounts of the ingested
\* transaction outputs paid to that address; no output is counted twice.
C30_ReceivedOnce ==
    \A addr_id \in DOMAIN addr_data :
        addr_data[addr_id].total_received = SumValues(IngestedOutputs(addr_id[2]))

====
